---- MODULE Spec2Model ----
(***************************************************************************)
(* A model of the comparative-analysis pipeline: the metagenomic profile   *)
(* (metagenomic_profile.py), the ordination code (pcoa.py), the parameter  *)
(* checks (check_parameters.py), the enrichment tests (enrichment.py) and  *)
(* the batch driver                                                        *)
(* (comparative_analysis.py, test_block.py, test_runner.py).               *)
(*                                                                         *)
(* Each component has its own specification over the shared variables:     *)
(*   SpecProfile  construction of one metagenomic_profile                  *)
(*   SpecPcoa     the numeric core of pcoa_plot: __get_eig_pairs and the   *)
(*                selection of the two axes                                *)
(*   SpecPca      one call of pca_plot or pca_plot_interactive             *)
(*   SpecEnrich   one call of enrichment.ttest or enrichment.ranksums      *)
(*   Spec         one batch run of comparative_analysis.main               *)
(***************************************************************************)
EXTENDS Integers, Sequences, FiniteSets, TLC

\* ------------------------------------------------------------------ bounds
\* largest number of samples in a metadata file
MaxSamples == 3
\* metadata label values are drawn from 1..MaxLabel
MaxLabel == 2
\* largest number of samples of a distance matrix
MaxN == 3
\* largest number of test blocks in a parameters file
MaxTests == 2
\* largest number of features of a profile handed to the PCA
MaxFeatures == 3

\* ---------------------------------------------------------------- helpers
\* Python's None and a present value, as sequences of length 0 and 1
None == <<>>
Some(x) == <<x>>
IsNone(o) == o = <<>>
Val(o) == o[1]

Range(s) == {s[i] : i \in 1..Len(s)}

\* sample identifiers of the metadata file, in file order
SampleNames == <<"s1", "s2", "s3", "s4", "s5", "s6">>
\* a sample of the abundance file that the metadata file does not list
ExtraSample == "s9"
\* display names a class_names mapping can give
DisplayNames == <<"A", "B", "C", "D", "E", "F">>

VARIABLES
    abundance_data,     \* profile.abundance_data: [index, columns, values]
    metadata,           \* profile.metadata: sequence of [id, val] rows
    references,         \* profile.references: ordered dict, sequence of [name, members]
    num_of_classes,     \* profile.num_of_classes
    total_sample_count, \* profile.total_sample_count
    pcP,                \* position inside metagenomic_profile.__init__
    args,               \* the constructor's arguments and the two input files
    dist_matrix,        \* __get_eig_pairs: dist_matrix
    A_matrix,           \* __get_eig_pairs: A_matrix
    ctr_matrix,         \* __get_eig_pairs: ctr_matrix, every cell times n*n
    eig_pairs,          \* pcoa_plot: eig_pairs, sequence of [val, vec]
    PCo1,               \* pcoa_plot: PCo1 (None until it is assigned)
    PCo2,               \* pcoa_plot: PCo2 (None until it is assigned)
    pcO,                \* position inside pcoa_plot
    errO,               \* the exception pcoa_plot raised, "none" if none
    callA,              \* pca_plot / pca_plot_interactive: the call and its environment
    pcA,                \* position inside the call
    fittedA,            \* whether PCA.fit_transform has been called
    filesA,             \* the files the call has written
    rotationA,          \* rotation: one [feature, x, y] row per feature (None before the fit)
    loadingsA,          \* loadings (None while it is not assigned)
    plottedA,           \* the loadings __plot_loadings has drawn, in order
    errA,               \* the exception the call raised, "none" if none
    callE,              \* enrichment.ttest / ranksums: the call and the profile it reads
    enrE,               \* the arguments of the running __enrichment (None before it)
    pvalsE,             \* __enrichment: pvals, sequence of [p, attr, dir]
    nansE,              \* __enrichment: nans, sequence of attribute names
    fileE,              \* the name of the file __write_to_file opened (None before it)
    rowsE,              \* the rows written to that file after its header
    output_filesE,      \* __pairwise: output_files
    masterE,            \* the rows of enrichment_master.tab (None while it is not written)
    pcE,                \* position inside the call
    errE,               \* the exception the call raised, "none" if none
    paramsM,            \* the parameters file: general parameters and test blocks
    testsM,             \* main: tests, the blocks parse() returned
    lblM,               \* main: lbl
    master_mp,          \* main: master_mp (None until it is built)
    profilesM,          \* the profiles set on the blocks of tests, in order
    run_order,          \* main: run_order
    startedM,           \* the blocks whose run() has been called
    test_results,       \* main: test_results, the blocks that returned a result
    distCallsM,         \* the metrics pairwise_distances has been called with
    iM,                 \* main: position of the running loop
    pcM,                \* position inside main
    errM,               \* how main ended early: "none", "exit" or an exception
    genR,               \* one block's run: the general parameters of the file
    blockR,             \* the test block: its test_type and its own parameters
    master_mpR,         \* main: master_mp
    mpR,                \* the profile set on the block (None until it is built)
    callsR,             \* the analyses test_runner has called, in order
    pcR                 \* position inside main and run_tests

profVars == <<abundance_data, metadata, references, num_of_classes,
              total_sample_count, pcP, args>>
pcoaVars == <<dist_matrix, A_matrix, ctr_matrix, eig_pairs, PCo1, PCo2, pcO, errO>>
pcaVars == <<callA, pcA, fittedA, filesA, rotationA, loadingsA, plottedA, errA>>
enrVars == <<callE, enrE, pvalsE, nansE, fileE, rowsE, output_filesE, masterE, pcE, errE>>
mainVars == <<paramsM, testsM, lblM, master_mp, profilesM, run_order, startedM,
              test_results, distCallsM, iM, pcM, errM>>
runVars == <<genR, blockR, master_mpR, mpR, callsR, pcR>>
vars == <<profVars, pcoaVars, pcaVars, enrVars, mainVars, runVars>>

\* what the steps of one component leave alone
notProf == <<pcoaVars, pcaVars, enrVars, mainVars, runVars>>
notPcoa == <<profVars, pcaVars, enrVars, mainVars, runVars>>
notPca == <<profVars, pcoaVars, enrVars, mainVars, runVars>>
notEnr == <<profVars, pcoaVars, pcaVars, mainVars, runVars>>
notMain == <<profVars, pcoaVars, pcaVars, enrVars, runVars>>
notRun == <<profVars, pcoaVars, pcaVars, enrVars, mainVars>>

\* the components that are not running
ProfIdle ==
    /\ abundance_data = None /\ metadata = None /\ references = None
    /\ num_of_classes = 0 /\ total_sample_count = 0 /\ pcP = "idle" /\ args = None
PcoaIdle ==
    /\ dist_matrix = None /\ A_matrix = None /\ ctr_matrix = None /\ eig_pairs = None
    /\ PCo1 = None /\ PCo2 = None /\ pcO = "idle" /\ errO = "none"
PcaIdle ==
    /\ callA = None /\ pcA = "idle" /\ fittedA = FALSE /\ filesA = {} /\ errA = "none"
    /\ rotationA = None /\ loadingsA = None /\ plottedA = <<>>
EnrIdle ==
    /\ callE = None /\ enrE = None /\ pvalsE = <<>> /\ nansE = <<>> /\ fileE = None
    /\ rowsE = <<>> /\ output_filesE = <<>> /\ masterE = None
    /\ pcE = "idle" /\ errE = "none"
MainIdle ==
    /\ paramsM = None /\ testsM = None /\ lblM = None /\ master_mp = None
    /\ profilesM = None /\ run_order = None /\ startedM = {} /\ test_results = None
    /\ distCallsM = {} /\ iM = 0 /\ pcM = "idle" /\ errM = "none"
RunIdle ==
    /\ genR = None /\ blockR = None /\ master_mpR = None /\ mpR = None
    /\ callsR = <<>> /\ pcR = "idle"

\* ------------------------------------------------- pandas frames (profile)
\* the cell of sample number r and feature number c of an abundance file
CellValue(r, c) == r * 10 + c

\* pd.DataFrame.from_csv of an abundance file: the first column is the index.
\* file.stored says which axis the file's rows are
from_csv(file) ==
    LET ns == Len(file.samples)
        nf == Len(file.features)
    IN IF file.stored = "sample_major"
       THEN [index |-> file.samples, columns |-> file.features,
             values |-> [r \in 1..ns |-> [c \in 1..nf |-> CellValue(r, c)]]]
       ELSE [index |-> file.features, columns |-> file.samples,
             values |-> [r \in 1..nf |-> [c \in 1..ns |-> CellValue(c, r)]]]

\* DataFrame.T
Transpose(df) ==
    [index |-> df.columns, columns |-> df.index,
     values |-> [r \in 1..Len(df.columns) |->
                    [c \in 1..Len(df.index) |-> df.values[c][r]]]]

\* metadata.index as a set
MetaIndex(md) == {md[i].id : i \in 1..Len(md)}

\* positions of seq whose element satisfies Keep, in order
RECURSIVE KeepPositions(_, _, _)
KeepPositions(s, drop, i) ==
    IF i > Len(s) THEN <<>>
    ELSE (IF s[i] \in drop THEN <<>> ELSE <<i>>) \o KeepPositions(s, drop, i + 1)

\* DataFrame.drop(labels) of an abundance frame: a NEW frame without those
\* rows; the receiver is left as it was
DropRows(df, labels) ==
    LET keep == KeepPositions(df.index, labels, 1)
    IN [index |-> [k \in 1..Len(keep) |-> df.index[keep[k]]],
        columns |-> df.columns,
        values |-> [k \in 1..Len(keep) |-> df.values[keep[k]]]]

\* DataFrame.drop(labels) of the metadata frame: a NEW frame
DropMeta(md, labels) ==
    LET ids == [i \in 1..Len(md) |-> md[i].id]
        keep == KeepPositions(ids, labels, 1)
    IN [k \in 1..Len(keep) |-> md[keep[k]]]

\* -------------------------------------------- metagenomic_profile methods
\* a shape check that never transposes
check_shape_never_transposes(ab, md) == ab

\* __check_abundance_data_shape: transpose when the first row label is not
\* in the metadata index
check_abundance_data_shape(ab, md) ==
    IF ab.index[1] \notin MetaIndex(md) THEN Transpose(ab) ELSE ab

\* __filter_samples_by_name: drop() is called on both frames and its result is
\* discarded, so both frames stay as they are
filter_samples_by_name(ab, md, names) ==
    LET dropped_ab == DropRows(ab, Range(names))
        dropped_md == DropMeta(md, Range(names))
    IN <<ab, md>>

\* the comparison of one rule
RuleHolds(op, this_val, value) ==
    CASE op = "="  -> this_val = value
      [] op = "!=" -> this_val # value
      [] op = ">"  -> this_val > value
      [] op = "<"  -> this_val < value
      [] OTHER     -> FALSE

\* the samples one rule selects
RuleSamples(md, op, value) ==
    {md[i].id : i \in {j \in 1..Len(md) : RuleHolds(op, md[j].val, value)}}

\* __filter_samples_by_rule: for every sample the rule selects, drop() is
\* called on both frames and its result is discarded
filter_samples_by_rule(ab, md, op, value) ==
    LET dropped_ab == DropRows(ab, RuleSamples(md, op, value))
        dropped_md == DropMeta(md, RuleSamples(md, op, value))
    IN <<ab, md>>

\* the rules of filter_rules applied in order
RECURSIVE ApplyRules(_, _, _, _)
ApplyRules(ab, md, rules, i) ==
    IF i > Len(rules) THEN <<ab, md>>
    ELSE LET r == filter_samples_by_rule(ab, md, rules[i].op, rules[i].value)
         IN ApplyRules(r[1], r[2], rules, i + 1)

\* metadata.sort(columns=label): ascending by value; the sort is numpy's
\* default quicksort, which fixes no order among rows of equal value
SortResults(md) ==
    LET n == Len(md)
    IN {[i \in 1..n |-> md[p[i]]] :
          p \in {q \in Permutations(1..n) :
                   \A i \in 1..n, j \in 1..n :
                      i < j => md[q[i]].val <= md[q[j]].val}}

\* a key that is built from the label value also when display names are given
ClassKey_without_names(class_names, ref_type) == "class_" \o ToString(ref_type)

\* the key of a class in references
ClassKey(class_names, ref_type) ==
    IF IsNone(class_names) THEN "class_" \o ToString(ref_type)
    ELSE Val(class_names)[ref_type]

\* d[key] = list(): replaces the value of a key the dict has, appends a new key
DictSetEmpty(d, key) ==
    IF \E i \in 1..Len(d) : d[i].name = key
    THEN [i \in 1..Len(d) |-> IF d[i].name = key
                              THEN [name |-> key, members |-> <<>>] ELSE d[i]]
    ELSE Append(d, [name |-> key, members |-> <<>>])

\* d[key].append(x)
DictAppend(d, key, x) ==
    [i \in 1..Len(d) |-> IF d[i].name = key
                         THEN [name |-> key, members |-> Append(d[i].members, x)]
                         ELSE d[i]]

\* the while loop of __init__ over the sorted metadata, from position i
RECURSIVE GroupLoop(_, _, _, _, _)
GroupLoop(md, i, ref_type, refs, class_names) ==
    IF i > Len(md) THEN refs
    ELSE IF md[i].val = ref_type
         THEN GroupLoop(md, i + 1, ref_type,
                        DictAppend(refs, ClassKey(class_names, ref_type), md[i].id),
                        class_names)
         ELSE LET key == ClassKey(class_names, md[i].val)
              IN GroupLoop(md, i + 1, md[i].val,
                           DictAppend(DictSetEmpty(refs, key), key, md[i].id),
                           class_names)

\* references as __init__ builds it from the sorted metadata
BuildReferences(md, class_names) ==
    LET key == ClassKey(class_names, md[1].val)
    IN GroupLoop(md, 2, md[1].val,
                 DictAppend(DictSetEmpty(<<>>, key), key, md[1].id), class_names)

RECURSIVE SumMembers(_, _)
SumMembers(refs, i) ==
    IF i > Len(refs) THEN 0 ELSE Len(refs[i].members) + SumMembers(refs, i + 1)

\* ------------------------------------------------------ inputs (profile)
\* the metadata column the files have
MetaColumn == "grp"

MetadataFiles ==
    UNION {{[i \in 1..n |-> [id |-> SampleNames[i], val |-> v[i]]] :
              v \in [1..n -> 1..MaxLabel]} : n \in 1..MaxSamples}

FileIds(md) == [i \in 1..Len(md) |-> md[i].id]

\* abundance files for a metadata file: stored by sample or by feature, with
\* exactly the metadata's samples or with one more, and with feature names
\* that may repeat a sample identifier
AbundanceFiles(md) ==
    {[stored |-> st, samples |-> sm, features |-> ft] :
        st \in {"sample_major", "feature_major"},
        sm \in {FileIds(md), <<ExtraSample>> \o FileIds(md)},
        ft \in {<<"f1", "f2">>, <<"s1", "f2">>}}

ClassNameChoices ==
    {None,
     Some([v \in 1..MaxLabel |-> DisplayNames[v]]),
     Some([v \in 1..MaxLabel |-> DisplayNames[1]])}

\* whether metadata[label] finds a column; None stands for the first column
HasColumn(label) == IF IsNone(label) THEN TRUE ELSE Val(label) = MetaColumn

LabelChoices == {None, Some(MetaColumn), Some("missing")}

Rule(op, value) == [label |-> MetaColumn, op |-> op, value |-> value]

FilterChoices ==
    {[labels |-> None, rules |-> None],
     [labels |-> Some(<<"s1">>), rules |-> None],
     [labels |-> None, rules |-> Some(<<Rule("=", 1)>>)],
     [labels |-> None, rules |-> Some(<<Rule("!=", 1)>>)],
     [labels |-> None, rules |-> Some(<<Rule(">", 1), Rule("<", 1)>>)]}

\* ------------------------------------------------- specification: profile
\* __init__ up to and including __check_abundance_data_shape has not run yet:
\* the state right after the two files are read
InitProfile ==
    \E md \in MetadataFiles :
      \E af \in AbundanceFiles(md), cn \in ClassNameChoices,
         lb \in LabelChoices, fc \in FilterChoices :
        /\ args = [abundance_file |-> af, metadata_file |-> md,
                   metadata_label |-> lb, class_names |-> cn,
                   filter_rules |-> fc.rules, filter_labels |-> fc.labels]
        /\ abundance_data = from_csv(af)
        /\ metadata = md
        /\ references = <<>>
        /\ num_of_classes = 0
        /\ total_sample_count = 0
        /\ pcP = "check_shape"
        /\ PcoaIdle /\ PcaIdle /\ EnrIdle /\ MainIdle /\ RunIdle

\* line 53
CheckShape ==
    /\ pcP = "check_shape"
    /\ abundance_data' = check_abundance_data_shape(abundance_data, metadata)
    /\ pcP' = "filter"
    /\ UNCHANGED <<metadata, references, num_of_classes, total_sample_count, args>>
    /\ UNCHANGED notProf

\* lines 55-61
Filter ==
    /\ pcP = "filter"
    /\ LET byName == IF IsNone(args.filter_labels) THEN <<abundance_data, metadata>>
                     ELSE filter_samples_by_name(abundance_data, metadata,
                                                 Val(args.filter_labels))
           byRule == IF IsNone(args.filter_rules) THEN byName
                     ELSE ApplyRules(byName[1], byName[2], Val(args.filter_rules), 1)
       IN /\ abundance_data' = byRule[1]
          /\ metadata' = byRule[2]
    /\ pcP' = "sort"
    /\ UNCHANGED <<references, num_of_classes, total_sample_count, args>>
    /\ UNCHANGED notProf

\* lines 63-72, the label is a column (None is the first column)
SortByLabel ==
    /\ pcP = "sort"
    /\ HasColumn(args.metadata_label)
    /\ metadata' \in SortResults(metadata)
    /\ pcP' = "group"
    /\ UNCHANGED <<abundance_data, references, num_of_classes, total_sample_count, args>>
    /\ UNCHANGED notProf

\* lines 67-69, KeyError: the error is printed and sys.exit(0) ends the process
LabelMissing ==
    /\ pcP = "sort"
    /\ ~HasColumn(args.metadata_label)
    /\ pcP' = "exited"
    /\ UNCHANGED <<abundance_data, metadata, references, num_of_classes,
                   total_sample_count, args>>
    /\ UNCHANGED notProf

\* lines 75-107
Group ==
    /\ pcP = "group"
    /\ references' = BuildReferences(metadata, args.class_names)
    /\ num_of_classes' = Len(references')
    /\ total_sample_count' = SumMembers(references', 1)
    /\ pcP' = "ready"
    /\ UNCHANGED <<abundance_data, metadata, args>>
    /\ UNCHANGED notProf

\* set_abundance_data(dataframe) on a constructed profile
SetAbundanceData ==
    /\ pcP = "ready"
    /\ \E af \in AbundanceFiles(args.metadata_file) :
         /\ abundance_data' = check_abundance_data_shape(from_csv(af), metadata)
         /\ args' = [args EXCEPT !.abundance_file = af]
    /\ UNCHANGED <<metadata, references, num_of_classes, total_sample_count, pcP>>
    /\ UNCHANGED notProf

NextProfile ==
    \/ CheckShape
    \/ Filter
    \/ SortByLabel
    \/ LabelMissing
    \/ Group
    \/ SetAbundanceData

SpecProfile == InitProfile /\ [][NextProfile]_vars

\* ------------------------------------------------------ claims: profile
\* the samples of a class list, as a set
Members(refs, i) == Range(refs[i].members)

\* C1 (as claimed): in every constructed profile the class lists of references
\* are non-empty and pairwise disjoint and together hold every metadata sample
\* exactly once
C1_Partition ==
    pcP = "ready" =>
        /\ \A i \in 1..Len(references) : references[i].members # <<>>
        /\ \A i \in 1..Len(references), j \in 1..Len(references) :
              i # j => Members(references, i) \cap Members(references, j) = {}
        /\ UNION {Members(references, i) : i \in 1..Len(references)}
              = MetaIndex(args.metadata_file)
        /\ SumMembers(references, 1) = Len(args.metadata_file)

\* the samples the filters of the constructor name: those of filter_labels and
\* those a rule selects by its metadata value
FilteredOut ==
    (IF IsNone(args.filter_labels) THEN {} ELSE Range(Val(args.filter_labels)))
    \cup
    (IF IsNone(args.filter_rules) THEN {}
     ELSE UNION {RuleSamples(args.metadata_file, r.op, r.value) :
                    r \in Range(Val(args.filter_rules))})

\* C2 (as claimed): after construction every filtered sample is absent from
\* the abundance matrix, the metadata and every class list, and every other
\* sample is kept
C2_FilteredAbsent ==
    pcP = "ready" =>
        /\ FilteredOut \cap MetaIndex(metadata) = {}
        /\ FilteredOut \cap Range(abundance_data.index) = {}
        /\ \A i \in 1..Len(references) : FilteredOut \cap Members(references, i) = {}
        /\ MetaIndex(args.metadata_file) \ FilteredOut \subseteq MetaIndex(metadata)

PlainFile(af, md) ==
    /\ Range(af.samples) = MetaIndex(md)
    /\ Len(af.samples) = Len(md)
    /\ af.stored = "feature_major" => af.features[1] \notin MetaIndex(md)

RECURSIVE SumSeq(_, _)
SumSeq(s, i) == IF i > Len(s) THEN 0 ELSE s[i] + SumSeq(s, i + 1)


\* np.linalg.matrix_power(M, 2): the matrix product M * M
matrix_power_2(M) ==
    LET n == Len(M)
        Cell(i, j) == SumSeq([k \in 1..n |-> M[i][k] * M[k][j]], 1)
    IN [i \in 1..n |-> [j \in 1..n |-> Cell(i, j)]]

\* a matrix with the product replaced by the square of each cell
elementwise_square(M) ==
    LET Cell(i, j) == M[i][j] * M[i][j]
    IN [i \in 1..Len(M) |-> [j \in 1..Len(M) |-> Cell(i, j)]]

\* line 87: A_matrix = np.linalg.matrix_power(dist_matrix, 2) / -2
\* (the distances of the model are even, so the division is exact)
compute_A_matrix(D) ==
    LET P == matrix_power_2(D)
        Cell(i, j) == -(P[i][j] \div 2)
    IN [i \in 1..Len(D) |-> [j \in 1..Len(D) |-> Cell(i, j)]]

\* n * np.mean(A[i][:]): the sum of row i
RowSum(A, i) == SumSeq(A[i], 1)
\* the sum of column j
ColSum(A, j) == SumSeq([i \in 1..Len(A) |-> A[i][j]], 1)
\* n * n * np.mean(A)
TotalSum(A) == SumSeq([i \in 1..Len(A) |-> RowSum(A, i)], 1)

\* a centering that takes the mean of row i twice
center_cell_row_i_twice(A, i, j) ==
    LET n == Len(A)
    IN n * n * A[i][j] - n * RowSum(A, i) - n * RowSum(A, i) + TotalSum(A)

\* line 96, times n*n:
\*   s = A_matrix[i][j] - np.mean(A_matrix[i][:]) - np.mean(A_matrix[:][j]) + a_mean
\* A_matrix[:] is the whole matrix, so A_matrix[:][j] is ROW j
center_cell(A, i, j) ==
    LET n == Len(A)
    IN n * n * A[i][j] - n * RowSum(A, i) - n * RowSum(A, j) + TotalSum(A)

\* lines 92-97
compute_ctr_matrix(A) ==
    LET Cell(i, j) == center_cell(A, i, j)
    IN [i \in 1..Len(A) |-> [j \in 1..Len(A) |-> Cell(i, j)]]

IsZeroMatrix(M) == \A i \in 1..Len(M), j \in 1..Len(M) : M[i][j] = 0

\* the eigenvalues np.linalg.eig can report
EigValues == {-1, 0, 1}

\* lines 99-100: np.linalg.eig is a library call. Its eigenvalues are drawn from
\* EigValues: one of them is 0 (the rows of the centered matrix sum to 0) and
\* all of them are 0 for the zero matrix. Eigenvector i stands as the i-th unit
\* vector, one value per sample
EigResults(B) ==
    LET n == Len(B)
        vec(i) == [k \in 1..n |-> IF k = i THEN 1 ELSE 0]
    IN {[i \in 1..n |-> [val |-> ev[i], vec |-> vec(i)]] :
          ev \in {e \in [1..n -> EigValues] :
                    /\ \E i \in 1..n : e[i] = 0
                    /\ IsZeroMatrix(B) => \A i \in 1..n : e[i] = 0}}

\* list.sort() of (eigenvalue, eigenvector) tuples compares the eigenvectors of
\* two tuples whose eigenvalues are equal, and the truth value of that array
\* comparison raises ValueError
SortRaises(pairs) ==
    \E i \in 1..Len(pairs), j \in 1..Len(pairs) : i # j /\ pairs[i].val = pairs[j].val

\* lines 332-333: eig_pairs.sort(); eig_pairs.reverse(), when no two eigenvalues
\* are equal
SortedReversed(pairs) ==
    LET n == Len(pairs)
        rank(i) == Cardinality({j \in 1..n : pairs[j].val > pairs[i].val}) + 1
    IN [k \in 1..n |-> pairs[CHOOSE i \in 1..n : rank(i) = k]]

\* pairwise_distances is a library call: its result is a square matrix with a
\* zero diagonal. A metric computed exactly gives a symmetric one; the others
\* stand for what rounding can give
Distances == {0, 2}
DistanceMatrices ==
    UNION {{D \in [1..n -> [1..n -> Distances]] : \A i \in 1..n : D[i][i] = 0} :
             n \in 2..MaxN}

IsSymmetric(M) == \A i \in 1..Len(M), j \in 1..Len(M) : M[i][j] = M[j][i]

\* --------------------------------------------------- specification: PCoA
\* line 84 has run
InitPcoa ==
    /\ ProfIdle /\ PcaIdle /\ EnrIdle /\ MainIdle /\ RunIdle
    /\ dist_matrix \in DistanceMatrices
    /\ A_matrix = None /\ ctr_matrix = None /\ eig_pairs = None
    /\ PCo1 = None /\ PCo2 = None
    /\ pcO = "A" /\ errO = "none"

\* line 87
ComputeA ==
    /\ pcO = "A"
    /\ A_matrix' = compute_A_matrix(dist_matrix)
    /\ pcO' = "center"
    /\ UNCHANGED <<dist_matrix, ctr_matrix, eig_pairs, PCo1, PCo2, errO>>
    /\ UNCHANGED notPcoa

\* lines 88-97
Center ==
    /\ pcO = "center"
    /\ ctr_matrix' = compute_ctr_matrix(A_matrix)
    /\ pcO' = "eig"
    /\ UNCHANGED <<dist_matrix, A_matrix, eig_pairs, PCo1, PCo2, errO>>
    /\ UNCHANGED notPcoa

\* lines 99-102
Eig ==
    /\ pcO = "eig"
    /\ eig_pairs' \in EigResults(ctr_matrix)
    /\ pcO' = "sort"
    /\ UNCHANGED <<dist_matrix, A_matrix, ctr_matrix, PCo1, PCo2, errO>>
    /\ UNCHANGED notPcoa

\* lines 332-336, no two eigenvalues equal
SortAndSelect ==
    /\ pcO = "sort"
    /\ ~SortRaises(eig_pairs)
    /\ eig_pairs' = SortedReversed(eig_pairs)
    /\ PCo1' = Some(eig_pairs'[1].vec)
    /\ PCo2' = Some(eig_pairs'[2].vec)
    /\ pcO' = "plot"
    /\ UNCHANGED <<dist_matrix, A_matrix, ctr_matrix, errO>>
    /\ UNCHANGED notPcoa

\* line 332 raises: pcoa_plot ends with the exception
SortFails ==
    /\ pcO = "sort"
    /\ SortRaises(eig_pairs)
    /\ errO' = "ValueError"
    /\ pcO' = "raised"
    /\ UNCHANGED <<dist_matrix, A_matrix, ctr_matrix, eig_pairs, PCo1, PCo2>>
    /\ UNCHANGED notPcoa

NextPcoa ==
    \/ ComputeA
    \/ Center
    \/ Eig
    \/ SortAndSelect
    \/ SortFails

SpecPcoa == InitPcoa /\ [][NextPcoa]_vars

\* -------------------------------------------------------- claims: PCoA
\* C5 (as claimed): every cell of A is -1/2 times the square of the same cell
\* of D
C5_ElementwiseSquare ==
    pcO \in {"center", "eig", "sort", "plot", "raised"} =>
        \A i \in 1..Len(dist_matrix), j \in 1..Len(dist_matrix) :
            2 * A_matrix[i][j] = -(dist_matrix[i][j] * dist_matrix[i][j])

C7_CenteredSymmetric ==
    (pcO \in {"eig", "sort", "plot", "raised"} /\ IsSymmetric(dist_matrix)) =>
        \A i \in 1..Len(ctr_matrix), j \in 1..Len(ctr_matrix) :
            ctr_matrix[i][j] = ctr_matrix[j][i]

\* C7 witness: a symmetric distance matrix whose rows of A have different
\* means has been centered
C7_Witness ==
    /\ pcO = "eig"
    /\ IsSymmetric(dist_matrix)
    /\ \E i \in 1..Len(A_matrix), j \in 1..Len(A_matrix) :
          /\ RowSum(A_matrix, i) # RowSum(A_matrix, j)
          /\ ctr_matrix[i][j] # 0

\* C8 (as claimed): for every list of eigenpairs, with or without equal
\* eigenvalues, the pairs end up ordered by non-increasing eigenvalue and PCo1
\* and PCo2 are the eigenvectors of the largest and second-largest eigenvalue,
\* one value per sample
C8_SortedAxes ==
    pcO \in {"plot", "raised"} =>
        /\ errO = "none"
        /\ \A k \in 1..(Len(eig_pairs) - 1) : eig_pairs[k].val >= eig_pairs[k + 1].val
        /\ PCo1 = Some(eig_pairs[1].vec)
        /\ PCo2 = Some(eig_pairs[2].vec)
        /\ Len(eig_pairs[1].vec) = Len(dist_matrix)
        /\ Len(eig_pairs[2].vec) = Len(dist_matrix)

\* ----------------------------------------------------------- pcoa.py: PCA
\* the number of loadings __check_input refuses from
MaxLoadings == 5

\* a check that refuses only more than MaxLoadings loadings
check_input_off_by_one(output_dir_ok, num_of_loadings) ==
    IF num_of_loadings < 0 THEN "ValueError"
    ELSE IF num_of_loadings > MaxLoadings THEN "ValueError"
    ELSE IF ~output_dir_ok THEN "IOError"
    ELSE "none"

\* __check_input: the exception it raises, "none" when it returns
check_input(output_dir_ok, num_of_loadings) ==
    IF num_of_loadings < 0 THEN "ValueError"
    ELSE IF num_of_loadings >= MaxLoadings THEN "ValueError"
    ELSE IF ~output_dir_ok THEN "IOError"
    ELSE "none"

\* the loading counts a caller passes
LoadingCounts == (0 - 2)..(MaxLoadings + 2)

\* the features of a profile, in column order
FeatureNames == <<"f1", "f2", "f3", "f4", "f5">>
\* the coefficients of a feature on a component
Coefficients == {-1, 0, 2}
\* my_pca.components_.T with index = df.columns (lines 276, 389): a
\* 2-component PCA needs at least two features
Rotations ==
    UNION {{[i \in 1..n |-> [feature |-> FeatureNames[i], x |-> c[i][1], y |-> c[i][2]]] :
              c \in [1..n -> Coefficients \X Coefficients]} : n \in 2..MaxFeatures}

\* np.linalg.norm(rotation.loc[i]) squared: the norms of the model are
\* compared through their squares, which order the same way
norm2(row) == row.x * row.x + row.y * row.y

\* line 117: the triple of one feature
loading_triple(row) == [feature |-> row.feature, norm |-> norm2(row), vec |-> <<row.x, row.y>>]

\* sorted(..., reverse=True, key=norm), line 119: the sort is stable, so a
\* triple goes behind every triple of an earlier feature with the same norm
RECURSIVE insert_by_norm(_, _)
insert_by_norm(sorted, t) ==
    IF sorted = <<>> THEN <<t>>
    ELSE IF Head(sorted).norm >= t.norm THEN <<Head(sorted)>> \o insert_by_norm(Tail(sorted), t)
    ELSE <<t>> \o sorted

RECURSIVE sorted_reverse(_, _)
sorted_reverse(all_loadings, i) ==
    IF i = 0 THEN <<>>
    ELSE insert_by_norm(sorted_reverse(all_loadings, i - 1), all_loadings[i])

\* a __get_loadings that returns the triples in the order of the features
get_loadings_unsorted(rotation) ==
    [i \in 1..Len(rotation) |-> loading_triple(rotation[i])]

\* __get_loadings, lines 104-121
get_loadings(rotation) ==
    LET all_loadings == [i \in 1..Len(rotation) |-> loading_triple(rotation[i])]
    IN sorted_reverse(all_loadings, Len(all_loadings))

Min(a, b) == IF a < b THEN a ELSE b

\* __plot_loadings, lines 221-236: the loadings drawn before the loop ends or
\* raises; pca_plot calls it only when num_of_loadings > 0
plot_loadings(loadings, num_of_loadings) ==
    IF num_of_loadings > 0
    THEN SubSeq(Val(loadings), 1, Min(num_of_loadings, Len(Val(loadings))))
    ELSE <<>>

\* line 222: loadings[i] with i past the end of the list
plot_loadings_err(loadings, num_of_loadings) ==
    IF num_of_loadings > 0 /\ num_of_loadings > Len(Val(loadings))
    THEN "IndexError" ELSE "none"

\* --------------------------------------------------- specification: PCA
\* a call of pca_plot (interactive = FALSE) or pca_plot_interactive, with the
\* state of the output directory and of the mpld3 installation
InitPca ==
    /\ ProfIdle /\ PcoaIdle /\ EnrIdle /\ MainIdle /\ RunIdle
    /\ \E k \in LoadingCounts, inter \in BOOLEAN, dir \in BOOLEAN, mpl \in BOOLEAN :
         /\ callA = [num_of_loadings |-> k, interactive |-> inter,
                     output_dir_ok |-> dir, mpld3_importable |-> mpl]
         /\ pcA = IF inter THEN "import" ELSE "check"
    /\ fittedA = FALSE /\ filesA = {} /\ errA = "none"
    /\ rotationA = None /\ loadingsA = None /\ plottedA = <<>>

\* pca_plot_interactive lines 374-377: mpld3 and plugins are imported
PcaImport ==
    /\ pcA = "import"
    /\ callA.mpld3_importable
    /\ pcA' = "check"
    /\ UNCHANGED <<callA, fittedA, filesA, rotationA, loadingsA, plottedA, errA>>
    /\ UNCHANGED notPca

\* pca_plot_interactive lines 377-379: ImportError is caught, a message is
\* printed and the function returns None
PcaImportFails ==
    /\ pcA = "import"
    /\ ~callA.mpld3_importable
    /\ pcA' = "returned_none"
    /\ UNCHANGED <<callA, fittedA, filesA, rotationA, loadingsA, plottedA, errA>>
    /\ UNCHANGED notPca

\* lines 268 and 381: __check_input returns
PcaCheckInput ==
    /\ pcA = "check"
    /\ check_input(callA.output_dir_ok, callA.num_of_loadings) = "none"
    /\ pcA' = "fit"
    /\ UNCHANGED <<callA, fittedA, filesA, rotationA, loadingsA, plottedA, errA>>
    /\ UNCHANGED notPca

\* lines 268 and 381: __check_input raises
PcaCheckInputRaises ==
    /\ pcA = "check"
    /\ check_input(callA.output_dir_ok, callA.num_of_loadings) # "none"
    /\ errA' = check_input(callA.output_dir_ok, callA.num_of_loadings)
    /\ pcA' = "raised"
    /\ UNCHANGED <<callA, fittedA, filesA, rotationA, loadingsA, plottedA>>
    /\ UNCHANGED notPca

\* lines 270-283 and 383-397: the PCA is fitted, rotation holds the two
\* coefficients of every feature, and loadings is assigned when
\* num_of_loadings > 0
PcaFit ==
    /\ pcA = "fit"
    /\ fittedA' = TRUE
    /\ \E rot \in Rotations :
          /\ rotationA' = Some(rot)
          /\ loadingsA' = IF callA.num_of_loadings > 0 THEN Some(get_loadings(rot))
                          ELSE None
    /\ pcA' = "plot"
    /\ UNCHANGED <<callA, filesA, plottedA, errA>>
    /\ UNCHANGED notPca

\* lines 288-314 and 402-426: the plot is drawn, __plot_loadings draws
\* loadings[0 .. num_of_loadings - 1], and the plot is saved
PcaPlotAndSave ==
    /\ pcA = "plot"
    /\ plot_loadings_err(loadingsA, callA.num_of_loadings) = "none"
    /\ plottedA' = plot_loadings(loadingsA, callA.num_of_loadings)
    /\ filesA' = IF callA.interactive THEN {"pca.html", "legend.png"} ELSE {"pca.png"}
    /\ pcA' = "returned"
    /\ UNCHANGED <<callA, fittedA, rotationA, loadingsA, errA>>
    /\ UNCHANGED notPca

\* lines 296 and 408: __plot_loadings reads loadings[i] past the end of the
\* list (line 222) after it has drawn every loading there is
PcaPlotRaises ==
    /\ pcA = "plot"
    /\ plot_loadings_err(loadingsA, callA.num_of_loadings) # "none"
    /\ plottedA' = plot_loadings(loadingsA, callA.num_of_loadings)
    /\ errA' = plot_loadings_err(loadingsA, callA.num_of_loadings)
    /\ pcA' = "raised"
    /\ UNCHANGED <<callA, fittedA, filesA, rotationA, loadingsA>>
    /\ UNCHANGED notPca

NextPca ==
    \/ PcaImport
    \/ PcaImportFails
    \/ PcaCheckInput
    \/ PcaCheckInputRaises
    \/ PcaFit
    \/ PcaPlotAndSave
    \/ PcaPlotRaises

SpecPca == InitPca /\ [][NextPca]_vars

\* --------------------------------------------------------- claims: PCA
InLoadingRange(k) == 0 <= k /\ k < 5

PcaEnded == pcA \in {"returned", "returned_none", "raised"}

supported_distance_metrics ==
    {"cityblock", "cosine", "euclidean", "braycurtis", "canberra", "chebyshev",
     "correlation", "dice", "kulsinki", "mahalanobis", "matching", "minkowski",
     "rogerstanimoto", "seuclidean", "sokalmichener", "sokalsneath", "sqeuclidean"}

\* line 23
supported_test_types == {"pcoa", "pca", "area_plot", "enrichment"}

\* the largest number of loadings __check_test lets through
CheckTestMaxLoadings == 5

\* a check that lets every distance metric through
check_test_any_metric(tb) ==
    IF tb.test_type = "pcoa" /\ IsNone(tb.distance_metric) THEN "False"
    ELSE IF tb.test_type = "pca" /\ IsNone(tb.number_of_loadings) THEN "KeyError"
    ELSE IF tb.test_type = "pca" /\ (Val(tb.number_of_loadings) < 0
                                     \/ Val(tb.number_of_loadings) > CheckTestMaxLoadings)
         THEN "False"
    ELSE "True"

\* __check_test: "True", "False", or the exception it raises. A pca block
\* without number_of_loadings makes line 114 read the missing key (KeyError)
check_test(tb) ==
    IF tb.test_type = "pcoa" /\ IsNone(tb.distance_metric) THEN "False"
    ELSE IF tb.test_type = "pcoa"
            /\ Val(tb.distance_metric) \notin supported_distance_metrics THEN "False"
    ELSE IF tb.test_type = "pca" /\ IsNone(tb.number_of_loadings) THEN "KeyError"
    ELSE IF tb.test_type = "pca" /\ (Val(tb.number_of_loadings) < 0
                                     \/ Val(tb.number_of_loadings) > CheckTestMaxLoadings)
         THEN "False"
    ELSE IF tb.test_type \notin supported_test_types THEN "False"
    ELSE "True"

\* a parse that keeps no block at all once one block fails its check
parse_all_or_nothing(blocks, i) ==
    IF \E j \in i..Len(blocks) : check_test(blocks[j]) = "KeyError"
    THEN [err |-> "KeyError", tests |-> <<>>]
    ELSE IF \E j \in i..Len(blocks) : check_test(blocks[j]) # "True"
    THEN [err |-> "none", tests |-> <<>>]
    ELSE [err |-> "none",
          tests |-> [k \in 1..(Len(blocks) - i + 1) |->
                        [pos |-> i + k - 1] @@ blocks[i + k - 1]]]

\* parse, lines 275-282: the blocks __check_test accepts, in file order, from
\* position i on; a raising check ends parse
RECURSIVE parse_from(_, _)
parse_from(blocks, i) ==
    IF i > Len(blocks) THEN [err |-> "none", tests |-> <<>>]
    ELSE LET c == check_test(blocks[i])
             rest == parse_from(blocks, i + 1)
         IN IF c = "KeyError" THEN [err |-> "KeyError", tests |-> <<>>]
            ELSE IF rest.err # "none" THEN rest
            ELSE [err |-> "none",
                  tests |-> (IF c = "True" THEN <<[pos |-> i] @@ blocks[i]>> ELSE <<>>)
                               \o rest.tests]

\* ----------------------------------------------- the run of one test block
\* the metrics sklearn's pairwise_distances knows, among those of the model
LibraryMetrics ==
    {"cityblock", "cosine", "euclidean", "l1", "l2", "manhattan", "braycurtis",
     "canberra", "chebyshev", "correlation", "dice", "hamming", "jaccard",
     "kulsinski", "mahalanobis", "matching", "minkowski", "rogerstanimoto",
     "russellrao", "seuclidean", "sokalmichener", "sokalsneath", "sqeuclidean", "yule"}

\* test_runner.run_tests on a pcoa or pca block: the metric pairwise_distances
\* is reached with (None if it is not reached) and the exception that ends the
\* run ("none" when the block returns a result).
\* Static plots: pcoa_plot / pca_plot. Interactive plots: the _interactive
\* functions, which return None when mpld3 is missing, and test_runner lines 98
\* and 105 then fail to unpack None (TypeError).
\* The profile of a batch has two samples at a non-zero distance, whose two
\* eigenvalues differ, so the sort of pcoa_plot does not raise here, and it
\* has at least as many features as a pca block can ask loadings for
run_tests(tb, gen) ==
    IF gen.interactive_plots /\ ~gen.mpld3_importable
    THEN [metric |-> None, err |-> "TypeError"]
    ELSE IF tb.test_type = "pcoa"
    THEN [metric |-> tb.distance_metric,
          err |-> IF Val(tb.distance_metric) \in LibraryMetrics
                  THEN "none" ELSE "ValueError"]
    ELSE [metric |-> None,
          err |-> check_input(TRUE, Val(tb.number_of_loadings))]

\* ---------------------------------------------- comparative_analysis.py
\* the metadata file of a batch
MainMetadataFile == <<[id |-> "s1", val |-> 2], [id |-> "s2", val |-> 1]>>

\* a constructor that falls back to the first column for a missing label
new_profile_default_column(label, class_names) ==
    Some(BuildReferences(CHOOSE m \in SortResults(MainMetadataFile) : TRUE, class_names))

\* mgp.metagenomic_profile(...) on the files of the batch: the references of
\* the new profile, or None when the label is no column and the constructor
\* ends the process with sys.exit(0)
new_profile(label, class_names) ==
    IF HasColumn(label)
    THEN Some(BuildReferences(CHOOSE m \in SortResults(MainMetadataFile) : TRUE,
                              class_names))
    ELSE None

\* lines 69-72: run_order after one more block
insert_run_order(order, tb) ==
    IF tb.test_type = "area_plot" THEN <<tb>> \o order ELSE Append(order, tb)

\* the test blocks a parameters file can hold
TestBlocks ==
    {[test_type |-> "pcoa", distance_metric |-> m, number_of_loadings |-> None,
      metadata_label |-> l] :
        m \in {None, Some("euclidean"), Some("manhattan")}, l \in LabelChoices}
    \cup
    {[test_type |-> "pca", distance_metric |-> None, number_of_loadings |-> k,
      metadata_label |-> l] :
        k \in {None, Some(3), Some(CheckTestMaxLoadings), Some(CheckTestMaxLoadings + 1)},
        l \in LabelChoices}

ParameterFiles ==
    {[general |-> [metadata_label |-> l, interactive_plots |-> ip,
                   mpld3_importable |-> mp, class_names |-> None],
      blocks |-> b] :
        l \in {Some(MetaColumn), Some("missing")},
        ip \in BOOLEAN, mp \in BOOLEAN,
        b \in UNION {[1..n -> TestBlocks] : n \in 1..MaxTests}}

\* --------------------------------------------------- specification: main
Init ==
    /\ ProfIdle /\ PcoaIdle /\ PcaIdle /\ EnrIdle /\ RunIdle
    /\ paramsM \in {f \in ParameterFiles :
                      ~f.general.interactive_plots => f.general.mpld3_importable}
    /\ testsM = <<>>
    /\ lblM = None
    /\ master_mp = None
    /\ profilesM = <<>>
    /\ run_order = <<>>
    /\ startedM = {}
    /\ test_results = <<>>
    /\ distCallsM = {}
    /\ iM = 1
    /\ pcM = "parse"
    /\ errM = "none"

\* line 27, parse returns
Parse ==
    /\ pcM = "parse"
    /\ parse_from(paramsM.blocks, 1).err = "none"
    /\ testsM' = parse_from(paramsM.blocks, 1).tests
    /\ lblM' = paramsM.general.metadata_label
    /\ pcM' = "master"
    /\ UNCHANGED <<paramsM, master_mp, profilesM, run_order, startedM, test_results,
                   distCallsM, iM, errM>>
    /\ UNCHANGED notMain

\* line 27, parse raises
ParseRaises ==
    /\ pcM = "parse"
    /\ parse_from(paramsM.blocks, 1).err # "none"
    /\ errM' = parse_from(paramsM.blocks, 1).err
    /\ pcM' = "ended"
    /\ UNCHANGED <<paramsM, testsM, lblM, master_mp, profilesM, run_order, startedM,
                   test_results, distCallsM, iM>>
    /\ UNCHANGED notMain

\* lines 45-47, the constructor returns
MasterProfile ==
    /\ pcM = "master"
    /\ ~IsNone(new_profile(lblM, paramsM.general.class_names))
    /\ master_mp' = new_profile(lblM, paramsM.general.class_names)
    /\ iM' = 1
    /\ pcM' = "construct"
    /\ UNCHANGED <<paramsM, testsM, lblM, profilesM, run_order, startedM, test_results,
                   distCallsM, errM>>
    /\ UNCHANGED notMain

\* lines 45-47, the constructor ends the process
MasterProfileExits ==
    /\ pcM = "master"
    /\ IsNone(new_profile(lblM, paramsM.general.class_names))
    /\ errM' = "exit"
    /\ pcM' = "ended"
    /\ UNCHANGED <<paramsM, testsM, lblM, master_mp, profilesM, run_order, startedM,
                   test_results, distCallsM, iM>>
    /\ UNCHANGED notMain

\* main, line 57-58: lbl after the block's own label, if it has one
next_lbl(lbl, tb) == IF IsNone(tb.metadata_label) THEN lbl ELSE tb.metadata_label

\* lines 54-72, one pass of the loop: the constructor returns
ConstructProfile ==
    /\ pcM = "construct"
    /\ iM <= Len(testsM)
    /\ lblM' = next_lbl(lblM, testsM[iM])
    /\ ~IsNone(new_profile(lblM', paramsM.general.class_names))
    /\ profilesM' = Append(profilesM, new_profile(lblM', paramsM.general.class_names))
    /\ run_order' = insert_run_order(run_order, testsM[iM])
    /\ iM' = iM + 1
    /\ UNCHANGED <<paramsM, testsM, master_mp, startedM, test_results, distCallsM,
                   pcM, errM>>
    /\ UNCHANGED notMain

\* lines 54-62, one pass of the loop: the constructor ends the process
ConstructProfileExits ==
    /\ pcM = "construct"
    /\ iM <= Len(testsM)
    /\ lblM' = next_lbl(lblM, testsM[iM])
    /\ IsNone(new_profile(lblM', paramsM.general.class_names))
    /\ errM' = "exit"
    /\ pcM' = "ended"
    /\ UNCHANGED <<paramsM, testsM, master_mp, profilesM, run_order, startedM,
                   test_results, distCallsM, iM>>
    /\ UNCHANGED notMain

\* lines 74-77: the loop is over, the parameters file is copied
ChangeDir ==
    /\ pcM = "construct"
    /\ iM > Len(testsM)
    /\ iM' = 1
    /\ pcM' = "run"
    /\ UNCHANGED <<paramsM, testsM, lblM, master_mp, profilesM, run_order, startedM,
                   test_results, distCallsM, errM>>
    /\ UNCHANGED notMain

\* lines 80-82, one pass of the loop: tb.run() returns a result
RunTest ==
    /\ pcM = "run"
    /\ iM <= Len(run_order)
    /\ LET r == run_tests(run_order[iM], paramsM.general)
       IN /\ r.err = "none"
          /\ distCallsM' = distCallsM \cup Range(r.metric)
    /\ startedM' = startedM \cup {run_order[iM].pos}
    /\ test_results' = Append(test_results, run_order[iM].pos)
    /\ iM' = iM + 1
    /\ UNCHANGED <<paramsM, testsM, lblM, master_mp, profilesM, run_order, pcM, errM>>
    /\ UNCHANGED notMain

\* lines 80-81, one pass of the loop: tb.run() raises
RunTestRaises ==
    /\ pcM = "run"
    /\ iM <= Len(run_order)
    /\ LET r == run_tests(run_order[iM], paramsM.general)
       IN /\ r.err # "none"
          /\ distCallsM' = distCallsM \cup Range(r.metric)
          /\ errM' = r.err
    /\ startedM' = startedM \cup {run_order[iM].pos}
    /\ pcM' = "ended"
    /\ UNCHANGED <<paramsM, testsM, lblM, master_mp, profilesM, run_order,
                   test_results, iM>>
    /\ UNCHANGED notMain

\* lines 83-96
Finish ==
    /\ pcM = "run"
    /\ iM > Len(run_order)
    /\ pcM' = "done"
    /\ UNCHANGED <<paramsM, testsM, lblM, master_mp, profilesM, run_order, startedM,
                   test_results, distCallsM, iM, errM>>
    /\ UNCHANGED notMain

Next ==
    \/ Parse
    \/ ParseRaises
    \/ MasterProfile
    \/ MasterProfileExits
    \/ ConstructProfile
    \/ ConstructProfileExits
    \/ ChangeDir
    \/ RunTest
    \/ RunTestRaises
    \/ Finish

Spec == Init /\ [][Next]_vars

\* -------------------------------------------------------- claims: main
\* whether a requested label names a column of the metadata file
LabelIsColumn(label) == IF IsNone(label) THEN TRUE ELSE Val(label) = MetaColumn

\* the labels main hands to the constructor: the general one, then for each
\* block of tests the last label set up to that block
RECURSIVE LabelsUsed(_, _, _)
LabelsUsed(lbl, tests, i) ==
    IF i > Len(tests) THEN <<>>
    ELSE LET l == IF IsNone(tests[i].metadata_label) THEN lbl
                  ELSE tests[i].metadata_label
         IN <<l>> \o LabelsUsed(l, tests, i + 1)

SomeLabelMissing ==
    \/ ~LabelIsColumn(paramsM.general.metadata_label)
    \/ \E l \in Range(LabelsUsed(paramsM.general.metadata_label, testsM, 1)) :
          ~LabelIsColumn(l)

\* C4: when a requested metadata_label is no column of the metadata, the
\* constructor ends the run without a profile for that request, and no test
\* block of the batch is run, because every profile is built before any run
C4_MissingLabelAborts ==
    /\ (pcM \notin {"parse"} /\ errM \notin {"KeyError"} /\ SomeLabelMissing) =>
          /\ startedM = {}
          /\ test_results = <<>>
          /\ pcM \in {"master", "construct", "ended"}
          /\ pcM = "ended" => errM = "exit"
    /\ errM = "exit" =>
          /\ pcM = "ended"
          /\ ~LabelIsColumn(lblM)
          /\ startedM = {} /\ test_results = <<>>
          /\ IsNone(master_mp) \/ Len(profilesM) < Len(testsM)
          /\ \A k \in 1..Len(profilesM) : ~IsNone(profilesM[k])

\* C4 witness: the second block of a batch asks for a missing label after the
\* first block got its profile; the run has ended and no block was run
C4_Witness ==
    /\ errM = "exit"
    /\ Len(profilesM) = 1
    /\ Len(testsM) >= 2
    /\ startedM = {}

\* C10: pairwise_distances is only ever reached with a metric of
\* supported_distance_metrics, and a pcoa block with another metric is never run
C10_UnsupportedMetricRejected ==
    /\ distCallsM \subseteq supported_distance_metrics
    /\ \A i \in 1..Len(paramsM.blocks) :
          (/\ paramsM.blocks[i].test_type = "pcoa"
           /\ ~IsNone(paramsM.blocks[i].distance_metric)
           /\ Val(paramsM.blocks[i].distance_metric) \notin supported_distance_metrics)
          => i \notin startedM

\* C10 witness: a batch with a pcoa block of an unsupported metric has run to
\* the end, and the distance computation was reached for another block
C10_Witness ==
    /\ pcM = "done"
    /\ distCallsM # {}
    /\ \E i \in 1..Len(paramsM.blocks) :
          /\ paramsM.blocks[i].test_type = "pcoa"
          /\ paramsM.blocks[i].distance_metric = Some("manhattan")

\* ------------------------------------------------ claims: validation errors
\* a block with one of the validation errors of the batch: a pcoa block whose
\* metric is not a supported one, a pca block whose loading count is outside
\* 0..MaxLoadings - 1
HasMetricError(tb) ==
    /\ tb.test_type = "pcoa"
    /\ ~IsNone(tb.distance_metric)
    /\ Val(tb.distance_metric) \notin supported_distance_metrics

HasLoadingError(tb) ==
    /\ tb.test_type = "pca"
    /\ ~IsNone(tb.number_of_loadings)
    /\ ~InLoadingRange(Val(tb.number_of_loadings))

\* a block that parse leaves out with a warning: no metric or an unsupported
\* one, fewer than 0 or more than 5 loadings
IsLeftOut(tb) ==
    \/ tb.test_type = "pcoa" /\ IsNone(tb.distance_metric)
    \/ HasMetricError(tb)
    \/ /\ tb.test_type = "pca"
       /\ ~IsNone(tb.number_of_loadings)
       /\ (Val(tb.number_of_loadings) < 0 \/ Val(tb.number_of_loadings) > 5)

KeptPositions == {i \in 1..Len(paramsM.blocks) : ~IsLeftOut(paramsM.blocks[i])}

\* C11 (as claimed): a validation error in one block of the batch means that
\* no block of the batch is run to a result
C11_ValidationAbortsBatch ==
    (\E i \in 1..Len(paramsM.blocks) :
        HasMetricError(paramsM.blocks[i]) \/ HasLoadingError(paramsM.blocks[i]))
    => test_results = <<>>

\* C11 (amended): a block with an unsupported metric, or with fewer than 0 or
\* more than 5 loadings, is left out by parse and never run, and the run goes
\* on with the other blocks: they are the tests of the batch, in file order,
\* and a run that reaches its end has a result for each of them
C11_InvalidBlockLeftOut ==
    /\ \A i \in 1..Len(paramsM.blocks) :
          IsLeftOut(paramsM.blocks[i]) => i \notin startedM
    /\ (pcM \notin {"parse"} /\ errM # "KeyError") =>
          /\ {testsM[k].pos : k \in 1..Len(testsM)} = KeptPositions
          /\ \A k \in 1..(Len(testsM) - 1) : testsM[k].pos < testsM[k + 1].pos
    /\ pcM = "done" => Range(test_results) = KeptPositions

\* C11 witness: a batch with a block of an unsupported metric has ended with
\* the result of another block
C11_Witness ==
    /\ pcM = "done"
    /\ \E i \in 1..Len(paramsM.blocks) : HasMetricError(paramsM.blocks[i])
    /\ test_results # <<>>

\* ------------------------------------------------------ claims: loadings
\* C12: the list __get_loadings returns has every feature of rotation exactly
\* once, each with the norm and the coefficients of its row, and its norms
\* never increase along the list
C12_LoadingsSorted ==
    ~IsNone(loadingsA) =>
        LET rot == Val(rotationA)
            lds == Val(loadingsA)
        IN /\ Len(lds) = Len(rot)
           /\ \A i \in 1..Len(rot) :
                 Cardinality({j \in 1..Len(lds) : lds[j].feature = rot[i].feature}) = 1
           /\ \A j \in 1..Len(lds) :
                 \E i \in 1..Len(rot) :
                    /\ lds[j].feature = rot[i].feature
                    /\ lds[j].norm = rot[i].x * rot[i].x + rot[i].y * rot[i].y
                    /\ lds[j].vec = <<rot[i].x, rot[i].y>>
           /\ \A j \in 1..(Len(lds) - 1) : lds[j].norm >= lds[j + 1].norm

\* C12 witness: loadings of three features whose norms grow along rotation
C12_Witness ==
    /\ ~IsNone(loadingsA)
    /\ Len(Val(rotationA)) = 3
    /\ norm2(Val(rotationA)[1]) < norm2(Val(rotationA)[2])
    /\ norm2(Val(rotationA)[2]) < norm2(Val(rotationA)[3])
    /\ Val(loadingsA)[1].feature = "f3"

\* a call that __check_input accepts and that gets past its imports
PcaAccepted ==
    /\ InLoadingRange(callA.num_of_loadings)
    /\ callA.output_dir_ok
    /\ callA.interactive => callA.mpld3_importable

\* C13 (as claimed): an accepted call completes and its plot shows exactly
\* num_of_loadings loadings, those of greatest norm in that order, also when
\* the profile has fewer features than that
C13_TopKLoadings ==
    (PcaAccepted /\ PcaEnded) =>
        /\ pcA = "returned"
        /\ errA = "none"
        /\ Len(plottedA) = callA.num_of_loadings
        /\ \A j \in 1..(Len(plottedA) - 1) : plottedA[j].norm >= plottedA[j + 1].norm
        /\ \A i \in 1..Len(Val(rotationA)) :
              (\A j \in 1..Len(plottedA) : plottedA[j].feature # Val(rotationA)[i].feature)
              => \A j \in 1..Len(plottedA) : plottedA[j].norm >= norm2(Val(rotationA)[i])

\* -------------------------------------------------------- enrichment.py
\* largest number of classes of a profile handed to an enrichment test
MaxClasses == 3

\* a p-value p is kept as the whole number p * PScale; PScale is a multiple of
\* 12, so that p * n / i stays whole for n and i up to 4, and NaN is None
PScale == 1200000

\* list(profile.references.keys()) of the largest profile
ClassLabels == <<"A", "B", "C", "D">>

\* df1.columns: the features in column order, which is not alphabetical;
\* FeatureNames lists the same names alphabetically
EnrichColumns == <<"f2", "f1", "f3", "f5", "f4">>

\* one feature: its abundances in the samples of the first class (d1) and of
\* the second (d2), and the p-values that the two scipy tests report for
\* them: stats.ttest_ind(df1[attr], df2[attr])[1] and
\* stats.ranksums(df1[attr], df2[attr])[1]
ColumnChoices ==
    {[d1 |-> <<2, 3>>, d2 |-> <<1, 1, 2>>, ttest_ind |-> Some(1200), ranksums |-> Some(720000)],
     [d1 |-> <<0, 1>>, d2 |-> <<1, 1, 2>>, ttest_ind |-> Some(148092), ranksums |-> Some(148104)],
     [d1 |-> <<1, 3>>, d2 |-> <<2, 2, 2>>, ttest_ind |-> Some(148104), ranksums |-> Some(148104)],
     [d1 |-> <<2, 3>>, d2 |-> <<1, 1, 2>>, ttest_ind |-> Some(148104), ranksums |-> Some(1200)],
     [d1 |-> <<0, 1>>, d2 |-> <<1, 1, 2>>, ttest_ind |-> Some(720000), ranksums |-> Some(PScale)],
     [d1 |-> <<1, 3>>, d2 |-> <<2, 2, 2>>, ttest_ind |-> Some(PScale), ranksums |-> Some(PScale)],
     [d1 |-> <<0, 0>>, d2 |-> <<1, 1, 1>>, ttest_ind |-> Some(0), ranksums |-> Some(148092)],
     [d1 |-> <<1, 1>>, d2 |-> <<1, 1, 1>>, ttest_ind |-> None, ranksums |-> Some(PScale)]}

\* the profiles of the model: K classes and n features
EnrichProfiles ==
    UNION {{[keys |-> SubSeq(ClassLabels, 1, K),
             columns |-> [i \in 1..n |-> [attr |-> EnrichColumns[i]] @@ c[i]]] :
               c \in [1..n -> ColumnChoices]} :
           K \in 2..MaxClasses, n \in 1..MaxFeatures}

\* the correction argument: the default None and the strings of the docstring
Corrections == {None, Some("none"), Some("bonferroni"), Some("fdr-0.1")}

\* correction.split("-")[0] == "fdr", line 179
IsFdr(correction) == correction \in {"fdr-0.1", "fdr-0.05", "fdr-0.01"}

\* __get_means and lines 166-169: nanmean(df1[attr]) > nanmean(df2[attr]),
\* the two means compared as sum1 / len1 > sum2 / len2
mean_gt(c1, c2) == SumSeq(c1, 1) * Len(c2) > SumSeq(c2, 1) * Len(c1)

\* a direction that names the class with the smaller mean
directionality_swapped(d1, d2, label1, label2) ==
    IF mean_gt(d1, d2) THEN label2
    ELSE IF mean_gt(d2, d1) THEN label1
    ELSE "n/a"

\* lines 165-169
directionality(d1, d2, label1, label2) ==
    IF mean_gt(d1, d2) THEN label1
    ELSE IF mean_gt(d2, d1) THEN label2
    ELSE "n/a"

\* line 170: enrichment_type(df1[attr], df2[attr])[1], the p-value of the
\* test function that __enrichment was given
test_p(c, enrichment_type) == c[enrichment_type]

\* lines 162-174: pvals and nans after the first i columns
RECURSIVE enrichment_loop(_, _, _, _, _)
enrichment_loop(columns, label1, label2, enrichment_type, i) ==
    IF i = 0 THEN [pvals |-> <<>>, nans |-> <<>>]
    ELSE LET prev == enrichment_loop(columns, label1, label2, enrichment_type, i - 1)
             c == columns[i]
             p == test_p(c, enrichment_type)
         IN IF IsNone(p)
            THEN [pvals |-> prev.pvals, nans |-> Append(prev.nans, c.attr)]
            ELSE [pvals |-> Append(prev.pvals,
                                   [p |-> Val(p), attr |-> c.attr,
                                    dir |-> directionality(c.d1, c.d2, label1, label2)]),
                  nans |-> prev.nans]

\* a Bonferroni correction by a given number of hypotheses
bonferonni_by(pvalues, n) ==
    [i \in 1..Len(pvalues) |->
        IF pvalues[i] * n < PScale THEN pvalues[i] * n ELSE PScale]

\* __bonferonni_correction, lines 102-119: n is the length of the list it gets
bonferonni_correction(pvalues) == bonferonni_by(pvalues, Len(pvalues))

\* sorted(pvalues.items(), key=itemgetter(1)), line 131: a stable sort of the
\* items in the order they were put in the dict
RECURSIVE insert_by_p(_, _)
insert_by_p(sorted, t) ==
    IF sorted = <<>> THEN <<t>>
    ELSE IF Head(sorted).p <= t.p THEN <<Head(sorted)>> \o insert_by_p(Tail(sorted), t)
    ELSE <<t>> \o sorted

RECURSIVE sorted_by_p(_, _)
sorted_by_p(items, i) ==
    IF i = 0 THEN <<>> ELSE insert_by_p(sorted_by_p(items, i - 1), items[i])

\* a Benjamini-Hochberg correction with the step that makes the corrected
\* values never decrease with the rank
RECURSIVE running_min(_, _)
running_min(vals, i) ==
    IF i = Len(vals) THEN vals[i]
    ELSE LET later == running_min(vals, i + 1)
         IN IF vals[i] < later THEN vals[i] ELSE later

fdr_correction_monotone(pvalues) ==
    LET sorted_values == sorted_by_p(pvalues, Len(pvalues))
        n == Len(pvalues)
        vals == [i \in 1..n |-> (sorted_values[i].p * n) \div i]
    IN [i \in 1..n |-> [lbl |-> sorted_values[i].lbl, p |-> running_min(vals, i)]]

\* __fdr_correction, lines 121-140: pvalues is the sequence of [lbl, p] items
\* of the dict; p * (float(n) / (i + 1)) is exact for the p-values of the model
fdr_correction(pvalues) ==
    LET sorted_values == sorted_by_p(pvalues, Len(pvalues))
        n == Len(pvalues)
    IN [i \in 1..n |-> [lbl |-> sorted_values[i].lbl,
                        p |-> (sorted_values[i].p * n) \div i]]

\* a correction whose fdr path leaves each direction at the place it had
\* before the rows were reordered
apply_correction_dir_by_place(pvals, correction) ==
    IF correction = "bonferroni"
    THEN LET ps == bonferonni_correction([i \in 1..Len(pvals) |-> pvals[i].p])
         IN [i \in 1..Len(ps) |-> [p |-> ps[i], attr |-> pvals[i].attr, dir |-> pvals[i].dir]]
    ELSE IF IsFdr(correction)
    THEN LET ps == [i \in 1..Len(pvals) |-> [lbl |-> pvals[i].attr, p |-> pvals[i].p]]
             corrected == fdr_correction(ps)
         IN [i \in 1..Len(corrected) |->
                [p |-> corrected[i].p, attr |-> corrected[i].lbl, dir |-> pvals[i].dir]]
    ELSE pvals

\* lines 176-184: pvals after the correction; correction is not None here
apply_correction(pvals, correction) ==
    IF correction = "bonferroni"
    THEN LET ps == bonferonni_correction([i \in 1..Len(pvals) |-> pvals[i].p])
         IN [i \in 1..Len(ps) |-> [p |-> ps[i], attr |-> pvals[i].attr, dir |-> pvals[i].dir]]
    ELSE IF IsFdr(correction)
    THEN LET directions(a) == (CHOOSE t \in Range(pvals) : t.attr = a).dir
             ps == [i \in 1..Len(pvals) |-> [lbl |-> pvals[i].attr, p |-> pvals[i].p]]
             corrected == fdr_correction(ps)
         IN [i \in 1..Len(corrected) |->
                [p |-> corrected[i].p, attr |-> corrected[i].lbl,
                 dir |-> directions(corrected[i].lbl)]]
    ELSE pvals

\* the place of a feature name in alphabetical order
AttrRank(a) == CHOOSE i \in 1..Len(FeatureNames) : FeatureNames[i] = a

\* a comparison of the p-values only
tuple_le_by_p(a, b) == a.p <= b.p

\* p_values.sort(), line 46: tuples compare by p, then by attribute name
tuple_le(a, b) == a.p < b.p \/ (a.p = b.p /\ AttrRank(a.attr) <= AttrRank(b.attr))

RECURSIVE insert_tuple(_, _)
insert_tuple(sorted, t) ==
    IF sorted = <<>> THEN <<t>>
    ELSE IF tuple_le(Head(sorted), t) THEN <<Head(sorted)>> \o insert_tuple(Tail(sorted), t)
    ELSE <<t>> \o sorted

RECURSIVE list_sort(_, _)
list_sort(p_values, i) ==
    IF i = 0 THEN <<>> ELSE insert_tuple(list_sort(p_values, i - 1), p_values[i])

\* a / b rounded to the nearest whole number
RoundDiv(a, b) == (2 * a + b) \div (2 * b)

\* __round_sig, line 31, for x > 0: x rounded to 4 significant digits, as the
\* whole number of 1e-8 that "%.12f" then prints; the p-values of the model
\* are 0 or at least 1e-5
round_sig(x) ==
    IF x >= PScale THEN RoundDiv(x, 1200) * 100000
    ELSE IF x >= 120000 THEN RoundDiv(x, 120) * 10000
    ELSE IF x >= 12000 THEN RoundDiv(x, 12) * 1000
    ELSE IF x >= 1200 THEN RoundDiv(10 * x, 12) * 100
    ELSE IF x >= 120 THEN RoundDiv(100 * x, 12) * 10
    ELSE RoundDiv(1000 * x, 12)

\* line 31 with x = 0: math.log10(0) raises ValueError
round_sig_err(x) == IF x = 0 THEN "ValueError" ELSE "none"

\* lines 48-52: the rows of the tuples before the first one that raises
written_p_rows(p_values) ==
    LET bad == {i \in 1..Len(p_values) : round_sig_err(p_values[i].p) # "none"}
        last == IF bad = {} THEN Len(p_values)
                ELSE (CHOOSE i \in bad : \A j \in bad : i <= j) - 1
    IN [i \in 1..last |-> [name |-> p_values[i].attr,
                           pval |-> Some(round_sig(p_values[i].p)),
                           enriched_in |-> p_values[i].dir]]

\* lines 54-56: the rows "attr\tn/a"
written_nan_rows(nans) ==
    [i \in 1..Len(nans) |-> [name |-> nans[i], pval |-> None, enriched_in |-> ""]]

\* the exception __write_to_file raises, "none" when it returns
write_to_file_err(p_values) ==
    IF \E i \in 1..Len(p_values) : round_sig_err(p_values[i].p) # "none"
    THEN "ValueError" ELSE "none"

\* __write_to_file, lines 33-58: the rows in the file after the header
write_to_file(p_values, nans) ==
    IF write_to_file_err(p_values) = "none"
    THEN written_p_rows(p_values) \o written_nan_rows(nans)
    ELSE written_p_rows(p_values)

\* ------------------------------------------------ specification: enrichment
\* a call of ttest or ranksums on a profile
InitEnrich ==
    /\ ProfIdle /\ PcoaIdle /\ PcaIdle /\ MainIdle /\ RunIdle
    /\ \E test \in {"ttest", "ranksums"}, corr \in Corrections, prof \in EnrichProfiles :
          callE = [test |-> test, correction |-> corr, profile |-> prof]
    /\ enrE = None /\ pvalsE = <<>> /\ nansE = <<>> /\ fileE = None /\ rowsE = <<>>
    /\ output_filesE = <<>> /\ masterE = None
    /\ pcE = "start" /\ errE = "none"

\* ranksums lines 239-243, ttest lines 270-274: at most two classes, one
\* __enrichment with the test of the call and its correction
EnrichTwoClasses ==
    /\ pcE = "start"
    /\ Len(callE.profile.keys) <= 2
    /\ enrE' = Some([label1 |-> callE.profile.keys[1], label2 |-> callE.profile.keys[2],
                     enrichment_type |-> IF callE.test = "ttest" THEN "ttest_ind"
                                         ELSE "ranksums",
                     correction |-> callE.correction])
    /\ pcE' = "loop"
    /\ UNCHANGED <<callE, pvalsE, nansE, fileE, rowsE, output_filesE, masterE, errE>>
    /\ UNCHANGED notEnr

\* a pairwise path that hands the correction of the call to __enrichment
EnrichPairwise_with_correction ==
    /\ pcE = "start"
    /\ Len(callE.profile.keys) > 2
    /\ enrE' = Some([label1 |-> callE.profile.keys[1], label2 |-> callE.profile.keys[2],
                     enrichment_type |-> "ttest_ind",
                     correction |-> callE.correction])
    /\ pcE' = "loop"
    /\ UNCHANGED <<callE, pvalsE, nansE, fileE, rowsE, output_filesE, masterE, errE>>
    /\ UNCHANGED notEnr

\* a pairwise path that uses the enrichment_type it was given
EnrichPairwise_with_own_test ==
    /\ pcE = "start"
    /\ Len(callE.profile.keys) > 2
    /\ enrE' = Some([label1 |-> callE.profile.keys[1], label2 |-> callE.profile.keys[2],
                     enrichment_type |-> IF callE.test = "ttest" THEN "ttest_ind"
                                         ELSE "ranksums",
                     correction |-> None])
    /\ pcE' = "loop"
    /\ UNCHANGED <<callE, pvalsE, nansE, fileE, rowsE, output_filesE, masterE, errE>>
    /\ UNCHANGED notEnr

\* ranksums lines 227-228, ttest lines 258-259, __pairwise lines 201-208:
\* more than two classes, the first __enrichment of __pairwise, for the
\* classes 0 and 1, always with stats.ttest_ind and without a correction.
\* That call raises at line 179, so output_files stays empty and the master
\* table of lines 229-238 and 260-269 is never written
EnrichPairwise ==
    /\ pcE = "start"
    /\ Len(callE.profile.keys) > 2
    /\ enrE' = Some([label1 |-> callE.profile.keys[1], label2 |-> callE.profile.keys[2],
                     enrichment_type |-> "ttest_ind",
                     correction |-> None])
    /\ pcE' = "loop"
    /\ UNCHANGED <<callE, pvalsE, nansE, fileE, rowsE, output_filesE, masterE, errE>>
    /\ UNCHANGED notEnr

\* __enrichment lines 161-174
EnrichLoop ==
    /\ pcE = "loop"
    /\ LET r == enrichment_loop(callE.profile.columns, Val(enrE).label1, Val(enrE).label2,
                                Val(enrE).enrichment_type, Len(callE.profile.columns))
       IN /\ pvalsE' = r.pvals
          /\ nansE' = r.nans
    /\ pcE' = "correct"
    /\ UNCHANGED <<callE, enrE, fileE, rowsE, output_filesE, masterE, errE>>
    /\ UNCHANGED notEnr

\* __enrichment lines 176-184 with a correction string
EnrichCorrect ==
    /\ pcE = "correct"
    /\ ~IsNone(Val(enrE).correction)
    /\ pvalsE' = apply_correction(pvalsE, Val(Val(enrE).correction))
    /\ pcE' = "write"
    /\ UNCHANGED <<callE, enrE, nansE, fileE, rowsE, output_filesE, masterE, errE>>
    /\ UNCHANGED notEnr

\* __enrichment line 179 with correction = None: None has no split
EnrichCorrectRaises ==
    /\ pcE = "correct"
    /\ IsNone(Val(enrE).correction)
    /\ errE' = "AttributeError"
    /\ pcE' = "raised"
    /\ UNCHANGED <<callE, enrE, pvalsE, nansE, fileE, rowsE, output_filesE, masterE>>
    /\ UNCHANGED notEnr

\* __enrichment lines 185-186: __write_to_file sorts pvals in place, writes
\* the file, and the name of the file is returned
EnrichWrite ==
    /\ pcE = "write"
    /\ LET p_values == list_sort(pvalsE, Len(pvalsE))
       IN /\ write_to_file_err(p_values) = "none"
          /\ pvalsE' = p_values
          /\ rowsE' = write_to_file(p_values, nansE)
    /\ fileE' = Some(Val(enrE).enrichment_type \o ".tab")
    /\ pcE' = "returned"
    /\ UNCHANGED <<callE, enrE, nansE, output_filesE, masterE, errE>>
    /\ UNCHANGED notEnr

\* __enrichment line 185: __write_to_file raises inside __round_sig, with the
\* file open and the rows before that tuple written
EnrichWriteRaises ==
    /\ pcE = "write"
    /\ LET p_values == list_sort(pvalsE, Len(pvalsE))
       IN /\ write_to_file_err(p_values) # "none"
          /\ pvalsE' = p_values
          /\ rowsE' = write_to_file(p_values, nansE)
          /\ errE' = write_to_file_err(p_values)
    /\ fileE' = Some(Val(enrE).enrichment_type \o ".tab")
    /\ pcE' = "raised"
    /\ UNCHANGED <<callE, enrE, nansE, output_filesE, masterE>>
    /\ UNCHANGED notEnr

NextEnrich ==
    \/ EnrichTwoClasses
    \/ EnrichPairwise
    \/ EnrichLoop
    \/ EnrichCorrect
    \/ EnrichCorrectRaises
    \/ EnrichWrite
    \/ EnrichWriteRaises

SpecEnrich == InitEnrich /\ [][NextEnrich]_vars

\* ----------------------------------------------------- claims: enrichment
EnrAfterLoop == pcE \in {"correct", "write", "returned", "raised"}
EnrEnded == pcE \in {"returned", "raised"}
TwoClassRun == Len(callE.profile.keys) = 2

\* the column of a feature in the profile of the call, and its raw p-value:
\* the one of the test function that __enrichment was called with
ColumnOf(attr) == CHOOSE c \in Range(callE.profile.columns) : c.attr = attr
RawP(attr) == ColumnOf(attr)[Val(enrE).enrichment_type]

\* C14: the direction of a feature is the label of the first class when its
\* mean there is greater, the label of the second class when its mean there
\* is greater, and "n/a" when the two means are equal, in the result list and
\* in every row written to the file
C14_DirectionLabel ==
    EnrAfterLoop =>
        LET label1 == callE.profile.keys[1]
            label2 == callE.profile.keys[2]
            Expected(attr) ==
                LET c == ColumnOf(attr)
                    s1 == SumSeq(c.d1, 1) * Len(c.d2)
                    s2 == SumSeq(c.d2, 1) * Len(c.d1)
                IN IF s1 > s2 THEN label1 ELSE IF s2 > s1 THEN label2 ELSE "n/a"
        IN /\ \A i \in 1..Len(pvalsE) :
                 /\ pvalsE[i].dir = Expected(pvalsE[i].attr)
                 /\ pvalsE[i].dir \in {label1, label2, "n/a"}
           /\ \A i \in 1..Len(rowsE) :
                 ~IsNone(rowsE[i].pval) => rowsE[i].enriched_in = Expected(rowsE[i].name)

\* C14 witness: a file with a row for each of the three directions
C14_Witness ==
    /\ pcE = "returned"
    /\ \E i, j, k \in 1..Len(rowsE) :
          /\ rowsE[i].enriched_in = "A" /\ ~IsNone(rowsE[i].pval)
          /\ rowsE[j].enriched_in = "B" /\ ~IsNone(rowsE[j].pval)
          /\ rowsE[k].enriched_in = "n/a" /\ ~IsNone(rowsE[k].pval)

\* C15 (as claimed): a two-class run ends with every feature of the profile in
\* exactly one row of the file, a not-applicable row exactly when its p-value
\* is NaN, so the file has as many rows as the profile has features
C15_EveryFeatureOneRow ==
    (TwoClassRun /\ EnrEnded) =>
        /\ Len(rowsE) = Len(callE.profile.columns)
        /\ \A k \in 1..Len(callE.profile.columns) :
              LET c == callE.profile.columns[k]
                  mine == {i \in 1..Len(rowsE) : rowsE[i].name = c.attr}
              IN /\ Cardinality(mine) = 1
                 /\ \A i \in mine : IsNone(rowsE[i].pval) <=> IsNone(RawP(c.attr))

\* C16 (as claimed): after a Bonferroni correction every p-value of the result
\* list is min(raw p * number of features of the profile, 1)
C16_BonferroniByFeatures ==
    (pcE \in {"write", "returned", "raised"} /\ Val(enrE).correction = Some("bonferroni")) =>
        LET n_features == Len(callE.profile.columns)
        IN \A i \in 1..Len(pvalsE) :
              LET raw == Val(RawP(pvalsE[i].attr))
              IN /\ pvalsE[i].p = IF raw * n_features < PScale THEN raw * n_features
                                  ELSE PScale
                 /\ pvalsE[i].p <= PScale
                 /\ n_features = 1 => pvalsE[i].p = raw

C18_NoCorrectionPassThrough ==
    (TwoClassRun /\ EnrEnded /\ callE.correction \in {None, Some("none")}) =>
        /\ pcE = "returned"
        /\ errE = "none"
        /\ \A i \in 1..Len(pvalsE) : pvalsE[i].p = Val(RawP(pvalsE[i].attr))

\* the rows of the file that carry a p-value, and those that are not applicable
PRows == {i \in 1..Len(rowsE) : ~IsNone(rowsE[i].pval)}
NanRows == {i \in 1..Len(rowsE) : IsNone(rowsE[i].pval)}

\* the rows without a p-value come last, in the order of the columns
NanRowsLast ==
    /\ \A i \in PRows, j \in NanRows : i < j
    /\ \A i, j \in NanRows :
          i < j => \E a, b \in 1..Len(callE.profile.columns) :
                      /\ a < b
                      /\ callE.profile.columns[a].attr = rowsE[i].name
                      /\ callE.profile.columns[b].attr = rowsE[j].name
    /\ \A i \in NanRows : rowsE[i].enriched_in = ""

\* C19 (as claimed): the rows of the file are in ascending order of the
\* p-value written in them, rows with the same written p-value are in
\* alphabetical order of the feature name, and the not-applicable rows come
\* after all of them in the order the features were met
C19_RowsSortedAsWritten ==
    /\ \A i, j \in PRows :
          i < j => /\ Val(rowsE[i].pval) <= Val(rowsE[j].pval)
                   /\ Val(rowsE[i].pval) = Val(rowsE[j].pval)
                         => AttrRank(rowsE[i].name) < AttrRank(rowsE[j].name)
    /\ NanRowsLast

\* C19 (amended): the rows are in ascending order of the p-value before it is
\* rounded for writing, rows whose unrounded p-values are equal are in
\* alphabetical order, the written values never decrease, and the
\* not-applicable rows come last in the order the features were met
C19_RowsSortedUnrounded ==
    /\ \A i \in PRows :
          /\ i <= Len(pvalsE)
          /\ rowsE[i].name = pvalsE[i].attr
          /\ rowsE[i].pval = Some(round_sig(pvalsE[i].p))
    /\ \A i, j \in PRows :
          i < j => /\ pvalsE[i].p <= pvalsE[j].p
                   /\ pvalsE[i].p = pvalsE[j].p
                         => AttrRank(rowsE[i].name) < AttrRank(rowsE[j].name)
                   /\ Val(rowsE[i].pval) <= Val(rowsE[j].pval)
    /\ NanRowsLast

\* C19 witness: a file in which the first two columns of the profile have the
\* same p-value and stand in alphabetical order, before a not-applicable row
C19_Witness ==
    /\ pcE = "returned"
    /\ Len(rowsE) = 3
    /\ rowsE[1].name = "f1" /\ rowsE[2].name = "f2" /\ rowsE[3].name = "f3"
    /\ rowsE[1].pval = rowsE[2].pval
    /\ pvalsE[1].p = pvalsE[2].p
    /\ IsNone(rowsE[3].pval)

\* C20 (as claimed): with K > 2 classes the call ends with K * (K - 1) / 2
\* pairwise tables and a master table of K * (K - 1) / 2 rows per feature
C20_PairwiseTables ==
    (Len(callE.profile.keys) > 2 /\ EnrEnded) =>
        LET K == Len(callE.profile.keys)
            pairs == (K * (K - 1)) \div 2
        IN /\ pcE = "returned"
           /\ Len(output_filesE) = pairs
           /\ ~IsNone(masterE)
           /\ Len(Val(masterE)) = pairs * Len(callE.profile.columns)

\* C21 (as claimed): with more than two classes the call returns, every class
\* pair has a table of its own, and every row of the master table carries the
\* tag of the pair it was computed from, a tag no other pair has
C21_PairTagged ==
    (Len(callE.profile.keys) > 2 /\ EnrEnded) =>
        LET K == Len(callE.profile.keys)
            pairs == {<<i, j>> \in (1..K) \X (1..K) : i < j}
        IN /\ errE = "none"
           /\ ~IsNone(masterE)
           /\ \A a, b \in 1..Len(output_filesE) :
                 a # b => output_filesE[a] # output_filesE[b]
           /\ Cardinality({Val(masterE)[r].Comparison : r \in 1..Len(Val(masterE))})
                 = Cardinality(pairs)

C29_CorrectionKeepsDirections ==
    [][(pcE = "correct" /\ pcE' = "write") =>
          /\ Len(pvalsE') = Len(pvalsE)
          /\ \A i, j \in 1..Len(pvalsE') : i # j => pvalsE'[i].attr # pvalsE'[j].attr
          /\ {<<pvalsE'[i].attr, pvalsE'[i].dir>> : i \in 1..Len(pvalsE')}
                = {<<pvalsE[i].attr, pvalsE[i].dir>> : i \in 1..Len(pvalsE)}]_vars

\* C29 witness: an fdr correction has put the third column of the profile
\* first, ahead of a feature with another direction
C29_Witness ==
    /\ pcE = "write"
    /\ IsFdr(Val(Val(enrE).correction))
    /\ Len(pvalsE) = 3
    /\ pvalsE[1].attr = EnrichColumns[3]
    /\ pvalsE[2].attr = EnrichColumns[1]
    /\ pvalsE[1].dir # pvalsE[2].dir

\* C30 (as claimed): once __write_to_file has opened the file, whatever
\* p-values in [0, 1] the result list holds, 0 and 1 included, the write
\* completes and the file holds one row per entry of the two lists
C30_WriteCompletes ==
    (~IsNone(fileE) /\ \A i \in 1..Len(pvalsE) : pvalsE[i].p >= 0 /\ pvalsE[i].p <= PScale) =>
        /\ errE = "none"
        /\ pcE = "returned"
        /\ Len(rowsE) = Len(pvalsE) + Len(nansE)

\* ------------------------------------------------ claims: grouping
\* the label value of a sample and its row number in the metadata file
LabelOf(id) == (CHOOSE r \in Range(args.metadata_file) : r.id = id).val
FileRow(id) == CHOOSE i \in 1..Len(args.metadata_file) : args.metadata_file[i].id = id

\* C26 (as claimed): a constructed profile has as many classes as the
\* metadata has distinct label values, the classes stand in references in
\* ascending order of the label value of their samples, and the samples of a
\* class stand in the order they have in the metadata file
C26_RunLengthGrouping ==
    pcP = "ready" =>
        /\ num_of_classes = Cardinality({metadata[i].val : i \in 1..Len(metadata)})
        /\ \A i, j \in 1..Len(references) :
              i < j => \A a \in Members(references, i), b \in Members(references, j) :
                          LabelOf(a) < LabelOf(b)
        /\ \A i \in 1..Len(references) :
              \A a, b \in 1..Len(references[i].members) :
                 a < b => FileRow(references[i].members[a]) < FileRow(references[i].members[b])

\* C27 (as claimed): without class_names the name of a class is the label
\* value of its samples, with class_names it is the display name of that value
C27_ClassNameIsLabel ==
    pcP = "ready" =>
        \A i \in 1..Len(references) : \A m \in Members(references, i) :
           references[i].name = IF IsNone(args.class_names) THEN ToString(LabelOf(m))
                                ELSE Val(args.class_names)[LabelOf(m)]

\* C27 (amended): without class_names the name of a class is "class_"
\* followed by the label value of its samples, with class_names it is the
\* display name of that value
C27_ClassNameIsPrefixedLabel ==
    pcP = "ready" =>
        \A i \in 1..Len(references) : \A m \in Members(references, i) :
           references[i].name = IF IsNone(args.class_names)
                                THEN "class_" \o ToString(LabelOf(m))
                                ELSE Val(args.class_names)[LabelOf(m)]

\* C27 witness: a profile of two classes that was given their display names
C27_Witness ==
    /\ pcP = "ready"
    /\ ~IsNone(args.class_names)
    /\ Len(references) = 2
    /\ references[1].name = DisplayNames[1]
    /\ references[2].name = DisplayNames[2]

\* ------------------------------- one test block run by main and test_runner
\* relative abundances are kept as whole multiples of 1 / NormUnit
NormUnit == 12

\* the features of the abundance file, and the counts of each sample in them,
\* by the number of the sample; every row sum divides NormUnit
RunnerColumns == <<"f1", "f2">>
SampleCounts == <<<<1, 2>>, <<2, 1>>, <<1, 1>>, <<3, 1>>, <<1, 3>>, <<2, 2>>>>

\* metadata.sort(columns=label) on the files of this model: numpy sorts a
\* column of at most 16 rows by insertion, which leaves rows of equal value
\* in file order
sorted_metadata(md) ==
    CHOOSE r \in SortResults(md) :
       \A i, j \in 1..Len(r) :
          (i < j /\ r[i].val = r[j].val)
             => (CHOOSE a \in 1..Len(md) : md[a].id = r[i].id)
                   < (CHOOSE b \in 1..Len(md) : md[b].id = r[j].id)

\* metagenomic_profile(abundance_data_path, metadata_path, ...) on a file
\* whose rows are the samples of the metadata file, in file order.
\* times_normalized counts the normalizations of this profile
constructed_profile(md, class_names) ==
    [abundance_data |-> [index |-> FileIds(md), columns |-> RunnerColumns,
                         values |-> [i \in 1..Len(md) |-> SampleCounts[i]]],
     metadata |-> sorted_metadata(md),
     references |-> BuildReferences(sorted_metadata(md), class_names),
     times_normalized |-> 0]

\* __normalize_dataframe: df.div(df.sum(axis=1), axis=0), every cell divided
\* by the sum of its row
normalize_dataframe(df) ==
    [df EXCEPT !.values =
        [r \in 1..Len(df.values) |->
            [c \in 1..Len(df.values[r]) |->
                (df.values[r][c] * NormUnit) \div SumSeq(df.values[r], 1)]]]

\* relative_normalization: the profile gets the normalized frame
relative_normalization(profile) ==
    [profile EXCEPT !.abundance_data = normalize_dataframe(profile.abundance_data),
                    !.times_normalized = profile.times_normalized + 1]

\* main lines 49-50 and __perform_normalization lines 137-139, for the
\* normalization types of this model
perform_normalization(profile, normalization_type) ==
    IF normalization_type = "relative" THEN relative_normalization(profile)
    ELSE profile

\* DataFrame.loc[labels]: a new frame of the rows with those labels, in the
\* order of the labels
loc_rows(df, labels) ==
    LET pos(l) == CHOOSE i \in 1..Len(df.index) : df.index[i] = l
    IN [index |-> labels, columns |-> df.columns,
        values |-> [k \in 1..Len(labels) |-> df.values[pos(labels[k])]]]

\* __partition_abundance_data: the frames of the classes from class k on, one
\* after the other as pd.concat puts them
RECURSIVE partition_from(_, _)
partition_from(profile, k) ==
    IF k > Len(profile.references)
    THEN [index |-> <<>>, columns |-> profile.abundance_data.columns, values |-> <<>>]
    ELSE LET class_df == loc_rows(profile.abundance_data, profile.references[k].members)
             rest == partition_from(profile, k + 1)
         IN [index |-> class_df.index \o rest.index, columns |-> class_df.columns,
             values |-> class_df.values \o rest.values]

partition_abundance_data(profile) == partition_from(profile, 1)

\* the two axes an ordination computes from the partitioned frame: sklearn and
\* np.linalg.eig are library calls; each axis has one score per row of the
\* frame, in row order. A score stands as the axis and the row it belongs to
axis_scores(df, axis) == [i \in 1..Len(df.index) |-> [axis |-> axis, row |-> df.index[i]]]

\* Python's seq[a:b]
PySlice(s, a, b) == SubSeq(s, Min(a, Len(s)) + 1, Min(b, Len(s)))

\* markers that are all taken from the start of the score sequences
RECURSIVE plot_markers_from_zero(_, _, _, _, _)
plot_markers_from_zero(refs, PC1, PC2, k, prev) ==
    IF k > Len(refs) THEN <<>>
    ELSE LET n == Len(refs[k].members)
         IN <<[label |-> refs[k].name, first |-> 0, last |-> n,
               x |-> PySlice(PC1, 0, n), y |-> PySlice(PC2, 0, n)]>>
            \o plot_markers_from_zero(refs, PC1, PC2, k + 1, prev + n)

\* __plot_markers lines 133-144: the plt.plot calls from class k on; each gets
\* PC1[prev:n+prev] and PC2[prev:n+prev] and the name of the class
RECURSIVE plot_markers(_, _, _, _, _)
plot_markers(refs, PC1, PC2, k, prev) ==
    IF k > Len(refs) THEN <<>>
    ELSE LET n == Len(refs[k].members)
         IN <<[label |-> refs[k].name, first |-> prev, last |-> n + prev,
               x |-> PySlice(PC1, prev, n + prev), y |-> PySlice(PC2, prev, n + prev)]>>
            \o plot_markers(refs, PC1, PC2, k + 1, prev + n)

\* __split_data: one frame per class
split_data(profile) ==
    [k \in 1..Len(profile.references) |->
        loc_rows(profile.abundance_data, profile.references[k].members)]

\* __sort_for_plot: the columns in descending order of their value in the
\* first row; the order of columns of equal value is left open
SortForPlotResults(df) ==
    LET n == Len(df.columns)
    IN {[i \in 1..n |-> q[i]] :
          q \in {p \in Permutations(1..n) :
                   \A i, j \in 1..n : i < j => df.values[1][p[i]] >= df.values[1][p[j]]}}

\* df.sort(columns=col_label, axis=0, inplace=True): the rows in ascending
\* order of their values in the columns col_label, the first column first;
\* rows equal in all of them keep their order
RECURSIVE row_less(_, _, _, _)
row_less(a, b, col_label, i) ==
    IF i > Len(col_label) THEN FALSE
    ELSE \/ a[col_label[i]] < b[col_label[i]]
         \/ (a[col_label[i]] = b[col_label[i]] /\ row_less(a, b, col_label, i + 1))

sort_rows(df, col_label) ==
    LET n == Len(df.index)
        before(q, r) == \/ row_less(df.values[q], df.values[r], col_label, 1)
                        \/ (~row_less(df.values[r], df.values[q], col_label, 1) /\ q < r)
        place(k) == CHOOSE r \in 1..n : Cardinality({q \in 1..n : before(q, r)}) = k - 1
    IN [index |-> [k \in 1..n |-> df.index[place(k)]], columns |-> df.columns,
        values |-> [k \in 1..n |-> df.values[place(k)]]]

\* area_plot lines 216-221 and area_plot_interactive lines 270-276: df is the
\* frame of the profile itself, and it is sorted in place
AreaPlotResults(profile) ==
    {[profile EXCEPT !.abundance_data = sort_rows(profile.abundance_data, col_label)] :
        col_label \in SortForPlotResults(profile.abundance_data)}

\* what one analysis leaves behind: the profile after it, for an ordination
\* the row labels of the partitioned frame and the markers it plots
no_ordination(profile) == [profile |-> profile, df_index |-> <<>>, markers |-> <<>>]

ordination(profile) ==
    LET df == partition_abundance_data(profile)
    IN [profile |-> profile, df_index |-> df.index,
        markers |-> plot_markers(profile.references, axis_scores(df, 1),
                                 axis_scores(df, 2), 1, 0)]

\* __plot_static lines 68-87 and __plot_dynamic lines 93-116: the analysis of a
\* test type, none for an enrichment block
plot_name(test_type, interactive) ==
    (IF test_type = "pcoa" THEN "pcoa_plot"
     ELSE IF test_type = "pca" THEN "pca_plot" ELSE "area_plot")
    \o (IF interactive THEN "_interactive" ELSE "")

PlotResults(profile, test_type) ==
    IF test_type = "area_plot" THEN {no_ordination(p) : p \in AreaPlotResults(profile)}
    ELSE {ordination(profile)}

\* the record of one analysis call: the profile it was given and how often
\* that profile had been normalized, and what the call left behind
call_record(name, profile, result) ==
    [analysis |-> name, times_normalized |-> profile.times_normalized,
     before |-> profile, after |-> result.profile,
     df_index |-> result.df_index, markers |-> result.markers]

\* the parameters files of the model: a general normalization, the kinds of
\* plots asked for, the data files, and one test block
RunnerGeneral ==
    {[normalization |-> nm, interactive_plots |-> ip, static_plots |-> sp,
      metadata_file |-> md, class_names |-> cn] :
        nm \in {"none", "relative"}, ip \in BOOLEAN, sp \in BOOLEAN,
        md \in MetadataFiles,
        cn \in {None, Some([v \in 1..MaxLabel |-> DisplayNames[1]])}}

RunnerBlocks ==
    {[test_type |-> tt, normalization |-> nm] :
        tt \in {"pcoa", "pca", "area_plot", "enrichment"},
        nm \in {None, Some("relative")}}

\* ------------------------------------------ specification: one block's run
\* main after parse, line 45 not yet run
InitRunner ==
    /\ ProfIdle /\ PcoaIdle /\ PcaIdle /\ EnrIdle /\ MainIdle
    /\ genR \in RunnerGeneral
    /\ blockR \in RunnerBlocks
    /\ master_mpR = None /\ mpR = None
    /\ callsR = <<>>
    /\ pcR = "master"

\* main lines 45-47
RunnerMasterProfile ==
    /\ pcR = "master"
    /\ master_mpR' = Some(constructed_profile(genR.metadata_file, genR.class_names))
    /\ pcR' = "main_normalize"
    /\ UNCHANGED <<genR, blockR, mpR, callsR>>
    /\ UNCHANGED notRun

\* main lines 49-52: the general normalization, of master_mp
MainNormalize ==
    /\ pcR = "main_normalize"
    /\ master_mpR' = Some(perform_normalization(Val(master_mpR), genR.normalization))
    /\ pcR' = "construct"
    /\ UNCHANGED <<genR, blockR, mpR, callsR>>
    /\ UNCHANGED notRun

\* main lines 54-66: the block gets a profile built from the files
SetProfile ==
    /\ pcR = "construct"
    /\ mpR' = Some(constructed_profile(genR.metadata_file, genR.class_names))
    /\ pcR' = "run_tests"
    /\ UNCHANGED <<genR, blockR, master_mpR, callsR>>
    /\ UNCHANGED notRun

\* run_tests lines 152-153: the normalization of the block, if it has one
PerformNormalization ==
    /\ pcR = "run_tests"
    /\ mpR' = IF IsNone(blockR.normalization) THEN mpR
              ELSE Some(perform_normalization(Val(mpR), Val(blockR.normalization)))
    /\ pcR' = "plots"
    /\ UNCHANGED <<genR, blockR, master_mpR, callsR>>
    /\ UNCHANGED notRun

\* run_tests lines 154-159: __plot_static, unless only interactive plots are
\* asked for
PlotStatic ==
    /\ pcR = "plots"
    /\ ~genR.interactive_plots \/ genR.static_plots
    /\ IF blockR.test_type = "enrichment" THEN UNCHANGED <<mpR, callsR>>
       ELSE \E r \in PlotResults(Val(mpR), blockR.test_type) :
               /\ mpR' = Some(r.profile)
               /\ callsR' = Append(callsR, call_record(plot_name(blockR.test_type, FALSE),
                                                      Val(mpR), r))
    /\ pcR' = IF genR.interactive_plots THEN "dynamic" ELSE "enrichment"
    /\ UNCHANGED <<genR, blockR, master_mpR>>
    /\ UNCHANGED notRun

\* run_tests lines 154-157: __plot_dynamic
PlotDynamic ==
    /\ pcR = "dynamic" \/ (pcR = "plots" /\ genR.interactive_plots /\ ~genR.static_plots)
    /\ IF blockR.test_type = "enrichment" THEN UNCHANGED <<mpR, callsR>>
       ELSE \E r \in PlotResults(Val(mpR), blockR.test_type) :
               /\ mpR' = Some(r.profile)
               /\ callsR' = Append(callsR, call_record(plot_name(blockR.test_type, TRUE),
                                                      Val(mpR), r))
    /\ pcR' = "enrichment"
    /\ UNCHANGED <<genR, blockR, master_mpR>>
    /\ UNCHANGED notRun

\* run_tests lines 160-163 and __perform_enrichment: ttest or ranksums reads
\* the profile through __split_data
PerformEnrichment ==
    /\ pcR = "enrichment"
    /\ blockR.test_type = "enrichment"
    /\ callsR' = Append(callsR, call_record("enrichment", Val(mpR), no_ordination(Val(mpR))))
    /\ pcR' = "returned"
    /\ UNCHANGED <<genR, blockR, master_mpR, mpR>>
    /\ UNCHANGED notRun

\* run_tests line 163 for the other test types
ReturnResult ==
    /\ pcR = "enrichment"
    /\ blockR.test_type # "enrichment"
    /\ pcR' = "returned"
    /\ UNCHANGED <<genR, blockR, master_mpR, mpR, callsR>>
    /\ UNCHANGED notRun

NextRunner ==
    \/ RunnerMasterProfile
    \/ MainNormalize
    \/ SetProfile
    \/ PerformNormalization
    \/ PlotStatic
    \/ PlotDynamic
    \/ PerformEnrichment
    \/ ReturnResult

SpecRunner == InitRunner /\ [][NextRunner]_vars

\* ------------------------------------------------ claims: one block's run
\* a normalization is asked for, in the general parameters or in the block
NormalizationRequested ==
    genR.normalization = "relative" \/ blockR.normalization = Some("relative")

\* the calls of an ordination or of an enrichment test
IsOrdination(c) ==
    c.analysis \in {"pcoa_plot", "pca_plot", "pcoa_plot_interactive", "pca_plot_interactive"}
EngineCalls == {i \in 1..Len(callsR) : IsOrdination(callsR[i]) \/ callsR[i].analysis = "enrichment"}

\* C24 (as claimed): when a normalization is asked for, the profile of every
\* ordination and enrichment call has been normalized exactly once when the
\* call starts
C24_NormalizedBeforeAnalysis ==
    NormalizationRequested => \A i \in EngineCalls : callsR[i].times_normalized = 1

\* C25 (as claimed): every analysis leaves the profile as it got it: the
\* abundance matrix with its rows and columns in the same order, the metadata
\* and references
C25_AnalysisLeavesProfile ==
    \A i \in 1..Len(callsR) :
       /\ callsR[i].after.abundance_data = callsR[i].before.abundance_data
       /\ callsR[i].after.metadata = callsR[i].before.metadata
       /\ callsR[i].after.references = callsR[i].before.references

\* the members of the classes from class k on, one class after the other
RECURSIVE ClassGroups(_, _)
ClassGroups(refs, k) ==
    IF k > Len(refs) THEN <<>> ELSE refs[k].members \o ClassGroups(refs, k + 1)

\* C28: in every ordination the score sequences have one value for each row
\* of the concatenated class groups, in that order; the ranges [first, last)
\* of the markers, in references order, follow one another from 0 to N; and
\* the scores plotted for a class are the scores of its members, on both axes
C28_MarkersMatchClasses ==
    \A i \in 1..Len(callsR) :
       IsOrdination(callsR[i]) =>
          LET refs == callsR[i].before.references
              mk == callsR[i].markers
              N == Len(callsR[i].df_index)
          IN /\ callsR[i].df_index = ClassGroups(refs, 1)
             /\ Len(mk) = Len(refs)
             /\ mk[1].first = 0
             /\ mk[Len(mk)].last = N
             /\ \A k \in 1..(Len(mk) - 1) : mk[k].last = mk[k + 1].first
             /\ \A k \in 1..Len(mk) :
                   /\ mk[k].label = refs[k].name
                   /\ mk[k].first < mk[k].last
                   /\ mk[k].x = [m \in 1..Len(refs[k].members) |->
                                    [axis |-> 1, row |-> refs[k].members[m]]]
                   /\ mk[k].y = [m \in 1..Len(refs[k].members) |->
                                    [axis |-> 2, row |-> refs[k].members[m]]]

\* C28 witness: a PCoA of two classes whose partitioned frame has its rows in
\* another order than the abundance matrix of the profile
C28_Witness ==
    \E i \in 1..Len(callsR) :
       /\ callsR[i].analysis = "pcoa_plot"
       /\ Len(callsR[i].markers) = 2
       /\ Len(callsR[i].df_index) = 3
       /\ callsR[i].df_index # callsR[i].before.abundance_data.index

====
